---- MODULE Spec2Model ----
(***************************************************************************)
(* Governance-gated ingestion pipeline of regpulse-lakehouse: the trust    *)
(* policy engine, the object store, the download index with its cooldown,  *)
(* the validator that gates writes to regulation_items, the review queue   *)
(* and the lineage graph builder.                                          *)
(*                                                                         *)
(* Strings are sequences of tokens.  A token is a chunk of characters; the *)
(* token "www." is the literal four characters, "/" the path separator,    *)
(* an upper-case token the upper-case spelling of the lower-case one.      *)
(* A parsed URL is a record [host, path, search]; search is the sequence   *)
(* of <<key, value>> pairs of the query string, in order.  A string that   *)
(* `new URL()` rejects is the value InvalidUrl.                            *)
(***************************************************************************)
EXTENDS Integers, Sequences, FiniteSets, TLC

VARIABLES
    policyFile,      \* config/trust-policy.json as parsed
    cachedPolicy,    \* policy.ts: let cachedPolicy
    lastEval,        \* the last evaluateSource call: [url, result]
    files,           \* the object storage directory: set of [name, data]
    storeLog,        \* the storeRemoteFile calls made so far, in order
    now,             \* Date.now(), in milliseconds
    cooldownEnv,     \* process.env.GAR_RETRY_COOLDOWN_MINUTES
    cachedIndex,     \* gar-index.ts: cachedIndex.records, url -> record
    indexFile,       \* gar-download-index.json: its records
    lastDl,          \* the last downloadStoreAndExtract call
    runs,            \* table runs, rows in order of started_at
    source_documents,  \* table source_documents, rows in order of retrieved_at
    regulation_items,  \* table regulation_items, rows in order of created_at
    review_queue,    \* table review_queue, rows in order of created_at
    requirements,    \* table requirements, rows in order of created_at
    links,           \* table links, rows in order of insertion
    nextId,          \* the identifiers uuidv4() has handed out so far
    lastJob,         \* the last job processed: its items and what became of them
    lineage,         \* the response of GET /api/lineage to the tables as they
                     \* are; None when it was not requested since they changed
    calls,           \* storeRemoteFile calls in progress: where each one stands
    rateState,       \* fetcher.ts: const rateState, host -> next allowed time
    rateCalls,       \* enforceRateLimit calls in progress: where each one stands
    passLog,         \* the enforceRateLimit calls that returned: host and time
    crawler,         \* the crawler section of the policy document
    robotsCache,     \* fetcher.ts: const robotsCache, domain -> parser
    requests,        \* the HTTP requests issued so far, in order
    fetchCall,       \* the fetchHtml or fetchBuffer call in progress
    indexDisk,       \* the index file and its .tmp sibling, as directory entries
                     \* that name files, and the contents of those files
    saves,           \* setGarRecord calls in progress: where each one stands
    docPick,         \* the file links of a detail page, and what fetchDocument
                     \* made of them
    listing,         \* the detail links of an index page, and what
                     \* fetchGlobalAutoRegs returned for them
    upserts,         \* the maps nodes and nodeKeyToId of a graph being built,
                     \* and the last upsertNode call made on them
    decisions,       \* approve and reject requests in progress: where each
                     \* one stands
    served           \* the last GET /api/files/:id request and its reply

\* an optional value is a sequence of length 0 (undefined, null) or 1
None == <<>>
Some(x) == <<x>>
\* undefined and null where the other values are strings
Undefined == "undefined"
Null == "null"
\* a string new URL() throws on
InvalidUrl == [valid |-> FALSE]

(***************************************************************************)
(* Generic string helpers (JavaScript String methods on token sequences).  *)
(***************************************************************************)
RECURSIVE SeqToSet(_)
SeqToSet(s) == IF s = <<>> THEN {} ELSE {Head(s)} \cup SeqToSet(Tail(s))

\* s.startsWith(p)
StartsWith(s, p) == Len(p) <= Len(s) /\ SubSeq(s, 1, Len(p)) = p

\* s.endsWith(p)
EndsWith(s, p) == Len(p) <= Len(s) /\ SubSeq(s, Len(s) - Len(p) + 1, Len(s)) = p

\* s.includes(p)
Includes(s, p) ==
    \E i \in 1..(Len(s) - Len(p) + 1) : SubSeq(s, i, i + Len(p) - 1) = p

\* s.replace(tok, ""): the first occurrence of the token is removed
ReplaceFirst(s, tok) ==
    IF \E i \in 1..Len(s) : s[i] = tok
    THEN LET i == CHOOSE k \in 1..Len(s) : s[k] = tok /\ \A j \in 1..(k-1) : s[j] # tok
         IN SubSeq(s, 1, i - 1) \o SubSeq(s, i + 1, Len(s))
    ELSE s

\* toLowerCase of one token
LowerTok(t) ==
    CASE t = "A" -> "a"
      [] t = "D" -> "d"
      [] t = "UTM_" -> "utm_"
      [] t = "PDF" -> "pdf"
      [] t = "CAPTCHA" -> "captcha"
      [] t = "Access Denied" -> "access denied"
      [] OTHER -> t

\* s.toLowerCase()
ToLowerCase(s) == [i \in 1..Len(s) |-> LowerTok(s[i])]

\* URLSearchParams.get(key): the first value of the key, null when absent
SearchGet(search, key) ==
    IF \E i \in 1..Len(search) : search[i][1] = key
    THEN LET i == CHOOSE k \in 1..Len(search) :
                    search[k][1] = key /\ \A j \in 1..(k-1) : search[j][1] # key
         IN search[i][2]
    ELSE Null

(***************************************************************************)
(* Policy engine (policy.ts).                                              *)
(***************************************************************************)
TIER_A == "TIER_A_BINDING"
TIER_B == "TIER_B_OFFICIAL_SIGNAL"
TIER_C == "TIER_C_SOFT_REQ"
TIER_D == "TIER_D_QUARANTINE"
TRUST_TIERS == {TIER_A, TIER_B, TIER_C, TIER_D}

\* policy.tiers[name]: the entry of that name, undefined when there is none
TierConfig(policy, name) ==
    IF \E i \in 1..Len(policy.tiers) : policy.tiers[i].name = name
    THEN Some(policy.tiers[CHOOSE i \in 1..Len(policy.tiers) : policy.tiers[i].name = name])
    ELSE None

\* a query key is a token sequence; utm keys start with the token "utm_"
IsUtmKey(key) == StartsWith(ToLowerCase(key), <<"utm_">>)

canonicalizeUrl(url, policy) ==
    IF ~url.valid THEN url
    ELSE LET stripped ==
                 IF policy.canonicalize.strip_utm_params
                 THEN SelectSeq(url.search, LAMBDA kv : ~IsUtmKey(kv[1]))
                 ELSE url.search
             path ==
                 IF /\ policy.canonicalize.normalize_trailing_slash
                    /\ url.path # <<"/">>
                    /\ EndsWith(url.path, <<"/">>)
                 THEN SubSeq(url.path, 1, Len(url.path) - 1)
                 ELSE url.path
         IN [valid |-> TRUE, host |-> url.host, path |-> path, search |-> stripped]

matchesProfile(profile, url) ==
    LET domain == ReplaceFirst(url.host, "www.")
    IN /\ domain = profile.domain
       /\ StartsWith(url.path, profile.path)
       /\ \A i \in 1..Len(profile.required_query_params) :
            LET key == profile.required_query_params[i][1]
                values == profile.required_query_params[i][2]
                param == SearchGet(url.search, key)
            IN param # Null /\ param # "" /\ param \in values

\* mutant: the last matching profile is taken
FindProfileLast(policy, url) ==
    IF \E i \in 1..Len(policy.profiles) : matchesProfile(policy.profiles[i], url)
    THEN CHOOSE i \in 1..Len(policy.profiles) :
            /\ matchesProfile(policy.profiles[i], url)
            /\ \A j \in (i+1)..Len(policy.profiles) : ~matchesProfile(policy.profiles[j], url)
    ELSE 0

\* policy.profiles.find(...): index of the first matching profile, 0 when none
FindProfile(policy, url) ==
    IF \E i \in 1..Len(policy.profiles) : matchesProfile(policy.profiles[i], url)
    THEN CHOOSE i \in 1..Len(policy.profiles) :
            /\ matchesProfile(policy.profiles[i], url)
            /\ \A j \in 1..(i-1) : ~matchesProfile(policy.profiles[j], url)
    ELSE 0

\* cfg.domains && cfg.domains.some(...): an absent list and an empty one both give false
TierHasDomain(cfg, domain) ==
    \E k \in 1..Len(cfg.domains) : Includes(domain, cfg.domains[k])

\* mutant: the loop variable leaks, the last tier listed is returned when none matches
findTierForDomainLast(domain, policy) ==
    IF \E i \in 1..Len(policy.tiers) : TierHasDomain(policy.tiers[i], domain)
    THEN policy.tiers[CHOOSE i \in 1..Len(policy.tiers) :
            /\ TierHasDomain(policy.tiers[i], domain)
            /\ \A j \in 1..(i-1) : ~TierHasDomain(policy.tiers[j], domain)].name
    ELSE IF policy.tiers # <<>> THEN policy.tiers[Len(policy.tiers)].name ELSE Null

findTierForDomain(domain, policy) ==
    IF \E i \in 1..Len(policy.tiers) : TierHasDomain(policy.tiers[i], domain)
    THEN policy.tiers[CHOOSE i \in 1..Len(policy.tiers) :
            /\ TierHasDomain(policy.tiers[i], domain)
            /\ \A j \in 1..(i-1) : ~TierHasDomain(policy.tiers[j], domain)].name
    ELSE Null

\* tierConfig?.allow_write_main ?? tier === "TIER_A_BINDING"
AllowWriteMain(policy, tier) ==
    LET cfg == TierConfig(policy, tier)
    IN IF cfg # None /\ cfg[1].allow_write_main # None
       THEN cfg[1].allow_write_main[1]
       ELSE tier = TIER_A

\* mutant: the conditions of the profile route joined by && instead of ||
ProfileRouteAnd(requires_review, allowWriteMain) ==
    IF requires_review /\ ~allowWriteMain THEN "review_queue" ELSE "main"

\* profile.requires_review || !allowWriteMain ? "review_queue" : "main"
ProfileRoute(requires_review, allowWriteMain) ==
    IF requires_review \/ ~allowWriteMain THEN "review_queue" ELSE "main"

\* allowWriteMain ? "main" : "review_queue"
FallbackRoute(allowWriteMain) ==
    IF allowWriteMain THEN "main" ELSE "review_queue"

\* the value evaluateSource returns, given the policy loadPolicy returned;
\* [threw |-> TRUE] when new URL(canonicalUrl) throws
evaluateSource(url, policy) ==
    LET canonicalUrl == canonicalizeUrl(url, policy)
    IN IF ~canonicalUrl.valid THEN [threw |-> TRUE]
       ELSE
       LET domain == ReplaceFirst(canonicalUrl.host, "www.")
           pi == FindProfile(policy, canonicalUrl)
           tierFallback == findTierForDomain(domain, policy)
       IN IF pi # 0
          THEN LET profile == policy.profiles[pi]
                   allowWriteMain == AllowWriteMain(policy, profile.tier)
               IN [threw |-> FALSE,
                   tier |-> profile.tier,
                   stage |-> profile.stage,
                   profile_id |-> profile.id,
                   requires_review |-> profile.requires_review,
                   route |-> ProfileRoute(profile.requires_review, allowWriteMain),
                   allow_write_main |-> allowWriteMain,
                   reason |-> Undefined,
                   canonical_url |-> canonicalUrl]
          ELSE IF tierFallback # Null
          THEN LET allowWriteMain == AllowWriteMain(policy, tierFallback)
               IN [threw |-> FALSE,
                   tier |-> tierFallback,
                   stage |-> "Official",
                   profile_id |-> Undefined,
                   requires_review |-> (tierFallback # TIER_A),
                   route |-> FallbackRoute(allowWriteMain),
                   allow_write_main |-> allowWriteMain,
                   reason |-> "domain_tier_match",
                   canonical_url |-> canonicalUrl]
          ELSE [threw |-> FALSE,
                tier |-> TIER_D,
                stage |-> "Drafting",
                profile_id |-> Undefined,
                requires_review |-> TRUE,
                route |-> "review_queue",
                allow_write_main |-> FALSE,
                reason |-> "unrecognized_domain",
                canonical_url |-> canonicalUrl]

(***************************************************************************)
(* Object store (storage/object-store.ts).  A file URL and a buffer are    *)
(* strings; a file name is a token sequence.                               *)
(***************************************************************************)
\* createHash("sha256").update(data).digest("hex"): collision-free digest
sha256Hex(data) == "sha256:" \o data

\* characters outside [a-zA-Z0-9._-]
UnsafeTok(t) == t \in {"/", "?", " "}

\* sanitizeId: [threw, safe]
sanitizeId(id) ==
    LET safe == SelectSeq(id, LAMBDA t : ~UnsafeTok(t))
    IN IF safe = <<>> \/ Includes(safe, <<".", ".">>)
       THEN [threw |-> TRUE, safe |-> <<>>]
       ELSE [threw |-> FALSE, safe |-> safe]

\* ext ? ext.replace(/^\./, "").toLowerCase() : ""
NormalizeExt(ext) ==
    ToLowerCase(IF ext # <<>> /\ Head(ext) = "." THEN Tail(ext) ELSE ext)

\* normalizedExt ? `${urlHash}.${normalizedExt}` : urlHash
StoreFilename(url, ext) ==
    IF NormalizeExt(ext) # <<>>
    THEN <<sha256Hex(url), ".">> \o NormalizeExt(ext)
    ELSE <<sha256Hex(url)>>

\* fs.stat(filePath) succeeds and stats.isFile()
FileExists(dir, name) == \E f \in dir : f.name = name

\* fs.readFile(filePath)
ReadFile(dir, name) == (CHOOSE f \in dir : f.name = name).data

\* fs.writeFile(filePath, buffer): creates or replaces the file
WriteFile(dir, name, buffer) ==
    { f \in dir : f.name # name } \cup { [name |-> name, data |-> buffer] }

\* computeFileHash(filePath)
computeFileHash(dir, name) ==
    [sha256 |-> sha256Hex(ReadFile(dir, name)), size |-> Len(ReadFile(dir, name))]

\* the StoredFile a call returns
StoredFile(safeName, ext, sha256, size, cached) ==
    [id |-> safeName, filename |-> safeName, ext |-> NormalizeExt(ext),
     sha256 |-> sha256, size |-> size, cached |-> cached, storage_path |-> safeName]

\* mutant: the cache hit reports the digest of the buffer just fetched
storeRemoteFileHashesBuffer(dir, url, buffer, ext) ==
    LET sane == sanitizeId(StoreFilename(url, ext))
        safeName == sane.safe
    IN IF sane.threw THEN [threw |-> TRUE, files |-> dir, result |-> None]
       ELSE IF FileExists(dir, safeName)
       THEN [threw |-> FALSE, files |-> dir,
             result |-> Some(StoredFile(safeName, ext, sha256Hex(buffer), Len(buffer), TRUE))]
       ELSE [threw |-> FALSE, files |-> WriteFile(dir, safeName, buffer),
             result |-> Some(StoredFile(safeName, ext, sha256Hex(buffer), Len(buffer), FALSE))]

\* storeRemoteFile(url, buffer, ext) on the directory dir:
\* [threw, files (the directory afterwards), result]
storeRemoteFile(dir, url, buffer, ext) ==
    LET sane == sanitizeId(StoreFilename(url, ext))
        safeName == sane.safe
    IN IF sane.threw THEN [threw |-> TRUE, files |-> dir, result |-> None]
       ELSE IF FileExists(dir, safeName)
       THEN LET hashInfo == computeFileHash(dir, safeName)
            IN [threw |-> FALSE, files |-> dir,
                result |-> Some(StoredFile(safeName, ext, hashInfo.sha256, hashInfo.size, TRUE))]
       ELSE [threw |-> FALSE, files |-> WriteFile(dir, safeName, buffer),
             result |-> Some(StoredFile(safeName, ext, sha256Hex(buffer), Len(buffer), FALSE))]

(***************************************************************************)
(* Download index (storage/gar-index.ts) and the connector's download      *)
(* step (connectors/globalautoregs.ts).  A record of the index is          *)
(* [status, stored_id, sha256, size, ext, last_seen, last_attempt, error]  *)
(* with the optional fields as options.                                    *)
(***************************************************************************)
MsPerMinute == 60000
DefaultCooldownMinutes == 180

\* getGarRecord(url): the record, None when the index has none
getGarRecord(index, url) == index[url]

\* setGarRecord(url, record): index.records[url] = record, then saveIndex
setGarRecord(index, url, record) == [index EXCEPT ![url] = Some(record)]

\* Number(process.env.GAR_RETRY_COOLDOWN_MINUTES || 180): [nan, value];
\* the variable is unset or empty, a number, or text that is no number
CooldownMinutes(env) ==
    IF ~env.set THEN [nan |-> FALSE, value |-> DefaultCooldownMinutes]
    ELSE IF env.numeric THEN [nan |-> FALSE, value |-> env.value]
    ELSE [nan |-> TRUE, value |-> 0]

\* mutant: the cooldown test is made against the last attempt of any record,
\* failed or not, and with <=
shouldSkipFailedAnyStatus(index, url, cooldown, t) ==
    LET record == getGarRecord(index, url)
    IN IF cooldown.nan \/ cooldown.value <= 0 THEN FALSE
       ELSE IF record = None \/ record[1].last_attempt = None THEN FALSE
       ELSE (t - record[1].last_attempt[1]) <= cooldown.value * MsPerMinute

\* shouldSkipFailed(url, cooldownMinutes) at time t;
\* (t - last) / 60000 < cooldownMinutes
shouldSkipFailed(index, url, cooldown, t) ==
    LET record == getGarRecord(index, url)
    IN IF cooldown.nan \/ cooldown.value <= 0 THEN FALSE
       ELSE IF record = None \/ record[1].status # "failed" \/ record[1].last_attempt = None
       THEN FALSE
       ELSE (t - record[1].last_attempt[1]) < cooldown.value * MsPerMinute

\* getStoredFilePath(fileId) resolves: the id is valid and the file is there
StoredFilePathOk(dir, fileId) ==
    ~sanitizeId(fileId).threw /\ FileExists(dir, sanitizeId(fileId).safe)

\* loadCachedFile finds a usable stored object for the file
CacheHit(dir, index, url) ==
    LET record == getGarRecord(index, url)
    IN record # None /\ record[1].stored_id # None
       /\ StoredFilePathOk(dir, record[1].stored_id[1])

\* extractText(buffer, ext) parses only docx and pdf, and only these can throw
ExtractCanThrow(ext) == ToLowerCase(ext) \in { <<"docx">>, <<"pdf">> }

FailedRecord(t, ext) ==
    [status |-> "failed", stored_id |-> None, sha256 |-> Undefined, size |-> None,
     ext |-> ext, last_seen |-> None, last_attempt |-> Some(t), error |-> "error"]

CachedRecord(stored, t) ==
    [status |-> "cached", stored_id |-> Some(stored.id), sha256 |-> stored.sha256,
     size |-> Some(stored.size), ext |-> stored.ext,
     last_seen |-> Some(t), last_attempt |-> Some(t), error |-> Undefined]

\* the GarStoredFile returned
DlResult(error, stored_id, sha256, size, cached) ==
    [error |-> error, stored_id |-> stored_id, sha256 |-> sha256,
     size |-> size, cached |-> cached]

\* downloadStoreAndExtract(file) at time t, on the directory dir and the index;
\* fetched is what fetchBuffer does (None: it throws, Some(buffer): the
\* bytes), extractThrows whether the text extraction throws.
\* [files, index, result, requests (fetchBuffer calls issued)]
downloadStoreAndExtract(dir, index, cooldown, t, file, fetched, extractThrows) ==
    IF shouldSkipFailed(index, file.url, cooldown, t)
    THEN [files |-> dir, index |-> index, requests |-> 0,
          result |-> DlResult("cooldown_skip", None, Undefined, None, None)]
    ELSE IF CacheHit(dir, index, file.url)
    THEN LET record == getGarRecord(index, file.url)[1]
         IN [files |-> dir,
             index |-> setGarRecord(index, file.url,
                          [record EXCEPT !.status = "cached", !.last_seen = Some(t)]),
             requests |-> 0,
             result |-> DlResult(Undefined, record.stored_id, record.sha256,
                                 record.size, Some(TRUE))]
    ELSE IF fetched = None
    THEN [files |-> dir,
          index |-> setGarRecord(index, file.url, FailedRecord(t, file.ext)),
          requests |-> 1,
          result |-> DlResult("error", None, Undefined, None, None)]
    ELSE LET out == storeRemoteFile(dir, file.url, fetched[1], file.ext)
         IN IF out.threw \/ (extractThrows /\ ExtractCanThrow(file.ext))
            THEN [files |-> out.files,
                  index |-> setGarRecord(index, file.url, FailedRecord(t, file.ext)),
                  requests |-> 1,
                  result |-> DlResult("error", None, Undefined, None, None)]
            ELSE LET stored == out.result[1]
                 IN [files |-> out.files,
                     index |-> setGarRecord(index, file.url, CachedRecord(stored, t)),
                     requests |-> 1,
                     result |-> DlResult(Undefined, Some(stored.id), stored.sha256,
                                         Some(stored.size), Some(stored.cached))]

(***************************************************************************)
(* Bounded policy documents and URLs.                                      *)
(***************************************************************************)
MaxTiers == 2
MaxProfiles == 2

DomA == <<"a">>
DomB == <<"b">>
IdKey == <<"id">>

TierEntryPool ==
    { [name |-> TIER_A, allow_write_main |-> Some(TRUE), domains |-> <<DomA>>],
      [name |-> TIER_B, allow_write_main |-> Some(FALSE), domains |-> <<DomB>>],
      [name |-> TIER_B, allow_write_main |-> Some(TRUE), domains |-> <<DomA>>],
      [name |-> TIER_D, allow_write_main |-> None, domains |-> <<DomB>>] }

ProfilePool ==
    { [id |-> "p1", domain |-> DomA, path |-> <<"/", "d">>,
       required_query_params |-> <<>>,
       tier |-> TIER_A, stage |-> "Official", requires_review |-> FALSE],
      [id |-> "p2", domain |-> DomA, path |-> <<"/">>,
       required_query_params |-> <<>>,
       tier |-> TIER_B, stage |-> "Drafting", requires_review |-> FALSE],
      [id |-> "p3", domain |-> DomA, path |-> <<"/", "d">>,
       required_query_params |-> << <<IdKey, {"1"}>> >>,
       tier |-> TIER_A, stage |-> "Comitology", requires_review |-> TRUE],
      [id |-> "p4", domain |-> DomA, path |-> <<"/", "d", "/">>,
       required_query_params |-> <<>>,
       tier |-> TIER_C, stage |-> "Interpreting", requires_review |-> FALSE] }

\* sequences of at most n elements of S
SeqsUpTo(S, n) == UNION { [1..k -> S] : k \in 0..n }

\* object keys and profile ids are unique
DistinctBy(s, F(_)) == \A i, j \in 1..Len(s) : F(s[i]) = F(s[j]) => i = j
NameOf(e) == e.name
IdOf(e) == e.id

Policies ==
    { [canonicalize |-> [strip_utm_params |-> su, normalize_trailing_slash |-> ns],
       tiers |-> ts, profiles |-> ps] :
        su \in BOOLEAN, ns \in BOOLEAN,
        ts \in { t \in SeqsUpTo(TierEntryPool, MaxTiers) : DistinctBy(t, NameOf) },
        ps \in { q \in SeqsUpTo(ProfilePool, MaxProfiles) : DistinctBy(q, IdOf) } }

Hosts == { <<"a">>, <<"www.", "a">>, <<"x", "a">>, <<"b">>, <<"c">> }
Paths == { <<"/">>, <<"/", "d", "/">> }
Searches == { <<>>, << <<IdKey, "1">> >>, << <<<<"UTM_", "s">>, "1">> >> }

Urls == [valid : {TRUE}, host : Hosts, path : Paths, search : Searches] \cup {InvalidUrl}

\* loadPolicy(): the cached document when there is one, else the file
loadPolicy == IF cachedPolicy # None THEN cachedPolicy[1] ELSE policyFile

\* one call of evaluateSource(url)
EvaluateSource(url) ==
    /\ cachedPolicy' = Some(loadPolicy)
    /\ lastEval' = Some([url |-> url, result |-> evaluateSource(url, loadPolicy)])
    /\ UNCHANGED policyFile

policyVars == <<policyFile, cachedPolicy, lastEval>>
storeVars == <<files, storeLog>>
indexVars == <<now, cooldownEnv, cachedIndex, indexFile, lastDl>>
dbVars == <<runs, source_documents, regulation_items, review_queue, requirements,
           links, nextId>>
rateVars == <<rateState, rateCalls, passLog>>
fetchVars == <<crawler, robotsCache, requests, fetchCall>>
saveVars == <<indexDisk, saves>>
connVars == <<docPick, listing>>
stepVars == <<upserts, decisions, served>>
auxVars == <<calls, rateVars, fetchVars, saveVars, connVars, stepVars>>
vars == <<policyVars, storeVars, indexVars, dbVars, lastJob, lineage, auxVars>>

\* a fixed policy document for the specifications that are not about policy
DefaultPolicy ==
    [canonicalize |-> [strip_utm_params |-> TRUE, normalize_trailing_slash |-> TRUE],
     tiers |-> << [name |-> TIER_A, allow_write_main |-> Some(TRUE), domains |-> <<DomA>>],
                  [name |-> TIER_B, allow_write_main |-> Some(FALSE), domains |-> <<DomB>>] >>,
     profiles |-> << CHOOSE q \in ProfilePool : q.id = "p1",
                     CHOOSE q \in ProfilePool : q.id = "p3" >>]

PolicyIdle == policyFile = DefaultPolicy /\ cachedPolicy = None /\ lastEval = None
StoreIdle == files = {} /\ storeLog = <<>>

FileUrls == {"u1", "u2"}
EmptyIndex == [u \in FileUrls |-> None]
IndexIdle ==
    /\ now = 0
    /\ cooldownEnv = [set |-> FALSE]
    /\ cachedIndex = EmptyIndex
    /\ indexFile = EmptyIndex
    /\ lastDl = None

\* the tables after initDb() on an empty database, no lineage request served
DbIdle ==
    /\ runs = <<>>
    /\ source_documents = <<>>
    /\ regulation_items = <<>>
    /\ review_queue = <<>>
    /\ requirements = <<>>
    /\ links = <<>>
    /\ nextId = 0
    /\ lastJob = None
    /\ lineage = None

\* the two storeRemoteFile calls that may be in progress at the same time
CallIds == {1, 2}

\* the hosts requests go to, and the callers that may be fetching at once
RateHosts == { <<"a">>, <<"www.", "a">>, <<"b">> }
RateCallers == {1, 2}

\* no request was made yet: rateState is empty, which reads as 0 (?? 0)
RateIdle ==
    /\ rateState = [h \in RateHosts |-> 0]
    /\ rateCalls = [c \in RateCallers |-> [pc |-> "idle"]]
    /\ passLog = <<>>

\* robots.txt is keyed by the host name without its first "www."
RobotsDomains == { ReplaceFirst(h, "www.") : h \in RateHosts }

\* no fetch was made yet; robots.txt and anti-bot pages are both enforced
FetchIdle ==
    /\ crawler = [robots_txt_enforced |-> TRUE, deny_on_captcha_or_anti_bot |-> TRUE]
    /\ robotsCache = [d \in RobotsDomains |-> None]
    /\ requests = <<>>
    /\ fetchCall = [pc |-> "idle", n |-> 0]

\* the scan worker runs two jobs at a time (worker.ts line 18), so two
\* setGarRecord calls may be in progress at once
SaveIds == {1, 2}

\* no index file was written yet: neither path names a file
SaveIdle ==
    /\ indexDisk = [final |-> 0, tmp |-> 0, inodes |-> <<>>]
    /\ saves = [c \in SaveIds |-> [pc |-> "idle"]]

\* the connector was not asked for anything
ConnIdle ==
    /\ docPick = [fileLinks |-> <<>>, out |-> None]
    /\ listing = [links |-> <<>>, maxItems |-> 1, out |-> None]

\* the approve requests that can be in progress at once
ApproveIds == {"a1", "a2"}

StepIdle ==
    /\ upserts = [nodes |-> <<>>, nodeKeyToId |-> <<>>, count |-> 0, last |-> None]
    /\ decisions = [c \in ApproveIds |-> [pc |-> "idle", item |-> None]]
    /\ served = None

\* nothing in progress
AuxIdle ==
    /\ calls = [c \in CallIds |-> [pc |-> "idle"]]
    /\ RateIdle
    /\ FetchIdle
    /\ SaveIdle
    /\ ConnIdle
    /\ StepIdle

InitPolicy ==
    /\ policyFile \in Policies
    /\ cachedPolicy = None
    /\ lastEval = None
    /\ StoreIdle
    /\ IndexIdle
    /\ DbIdle
    /\ AuxIdle

NextPolicy ==
    \E url \in Urls :
        EvaluateSource(url) /\ UNCHANGED <<storeVars, indexVars, dbVars, lastJob, lineage, auxVars>>

SpecPolicy == InitPolicy /\ [][NextPolicy]_vars

(***************************************************************************)
(* The policy engine in a process that outlives one version of the policy  *)
(* document: the operator replaces config/trust-policy.json between calls  *)
(* of evaluateSource.  The process itself never writes the document.       *)
(***************************************************************************)
PolicyDocs ==
    { p \in Policies : /\ p.canonicalize.strip_utm_params
                       /\ p.canonicalize.normalize_trailing_slash
                       /\ Len(p.tiers) <= 1
                       /\ Len(p.profiles) <= 1 }

\* the document at resolvePolicyPath() is replaced by another one
ReplacePolicyFile(doc) ==
    /\ doc # policyFile
    /\ policyFile' = doc
    /\ UNCHANGED <<cachedPolicy, lastEval>>

InitPolicyChange ==
    /\ policyFile \in PolicyDocs
    /\ cachedPolicy = None
    /\ lastEval = None
    /\ StoreIdle
    /\ IndexIdle
    /\ DbIdle
    /\ AuxIdle

NextPolicyChange ==
    \/ \E url \in Urls :
        EvaluateSource(url) /\ UNCHANGED <<storeVars, indexVars, dbVars, lastJob, lineage, auxVars>>
    \/ \E doc \in PolicyDocs :
        ReplacePolicyFile(doc) /\ UNCHANGED <<storeVars, indexVars, dbVars, lastJob, lineage, auxVars>>

SpecPolicyChange == InitPolicyChange /\ [][NextPolicyChange]_vars

\* C12: the result of every evaluateSource call is the one the policy document
\* dictates as it stands when the call is made, so a call made after the
\* document changed follows the new document.
C12_NoStalePolicy ==
    [][lastEval' # lastEval =>
          lastEval'[1].result = evaluateSource(lastEval'[1].url, policyFile)]_vars

(***************************************************************************)
(* The object store on its own: a bounded number of storeRemoteFile calls, *)
(* one after the other.                                                    *)
(***************************************************************************)
MaxStoreCalls == 3

Buffers == {"x", "yy"}
Exts == { <<>>, <<"pdf">>, <<".", "PDF">>, <<".", ".", "pdf">> }

\* one call of storeRemoteFile(url, buffer, ext); the log keeps the arguments,
\* the outcome and what the slot holds when the call returns
StoreRemoteFile(url, buffer, ext) ==
    LET out == storeRemoteFile(files, url, buffer, ext)
        name == sanitizeId(StoreFilename(url, ext)).safe
    IN /\ Len(storeLog) < MaxStoreCalls
       /\ files' = out.files
       /\ storeLog' = Append(storeLog,
            [url |-> url, buffer |-> buffer, ext |-> ext,
             threw |-> out.threw, result |-> out.result,
             onDisk |-> IF FileExists(out.files, name)
                        THEN Some(ReadFile(out.files, name)) ELSE None])

InitStore == PolicyIdle /\ StoreIdle /\ IndexIdle /\ DbIdle /\ AuxIdle

NextStore ==
    \E url \in FileUrls, buffer \in Buffers, ext \in Exts :
        StoreRemoteFile(url, buffer, ext)
        /\ UNCHANGED <<policyVars, indexVars, dbVars, lastJob, lineage, auxVars>>

SpecStore == InitStore /\ [][NextStore]_vars

(***************************************************************************)
(* The object store under two storeRemoteFile calls in progress at once.   *)
(* A call gives way to the other at each await: fs.stat, fs.readFile and   *)
(* fs.writeFile, which itself opens the file (creating or truncating it)   *)
(* and then writes the buffer.  The write is taken as one step that leaves *)
(* the whole buffer in the file.                                           *)
(***************************************************************************)
RaceExts == { <<"pdf">>, <<".", "PDF">> }

\* lines 56-61: the call computes the slot of its URL and extension
CallEnter(c, url, buffer, ext) ==
    /\ calls[c].pc = "idle"
    /\ calls' = [calls EXCEPT ![c] =
            [pc |-> "stat", url |-> url, buffer |-> buffer, ext |-> ext,
             safeName |-> sanitizeId(StoreFilename(url, ext)).safe]]
    /\ UNCHANGED files

\* line 68-69: await fs.stat(filePath); stats.isFile()
CallStat(c) ==
    /\ calls[c].pc = "stat"
    /\ calls' = [calls EXCEPT ![c].pc =
            IF FileExists(files, calls[c].safeName) THEN "hash" ELSE "write"]
    /\ UNCHANGED files

\* lines 70-82: await computeFileHash(filePath); return with cached = true
CallHash(c) ==
    /\ calls[c].pc = "hash"
    /\ calls' = [calls EXCEPT ![c] = [@ EXCEPT !.pc = "done"] @@
            [result |-> LET h == computeFileHash(files, calls[c].safeName)
                        IN StoredFile(calls[c].safeName, calls[c].ext,
                                      h.sha256, h.size, TRUE)]]
    /\ UNCHANGED files

\* line 88, first half: fs.writeFile opens the file, which now exists, empty
CallOpen(c) ==
    /\ calls[c].pc = "write"
    /\ files' = WriteFile(files, calls[c].safeName, "")
    /\ calls' = [calls EXCEPT ![c].pc = "writing"]

\* lines 88-100: the buffer is written; return with cached = false
CallWrite(c) ==
    /\ calls[c].pc = "writing"
    /\ files' = WriteFile(files, calls[c].safeName, calls[c].buffer)
    /\ calls' = [calls EXCEPT ![c] = [@ EXCEPT !.pc = "done"] @@
            [result |-> StoredFile(calls[c].safeName, calls[c].ext,
                                   sha256Hex(calls[c].buffer),
                                   Len(calls[c].buffer), FALSE)]]

NextStoreRace ==
    \/ \E c \in CallIds, url \in FileUrls, buffer \in Buffers, ext \in RaceExts :
          CallEnter(c, url, buffer, ext)
          /\ UNCHANGED <<policyVars, storeLog, indexVars, dbVars, lastJob, lineage, rateVars, fetchVars, saveVars, connVars, stepVars>>
    \/ \E c \in CallIds :
          CallStat(c) /\ UNCHANGED <<policyVars, storeLog, indexVars, dbVars, lastJob, lineage, rateVars, fetchVars, saveVars, connVars, stepVars>>
    \/ \E c \in CallIds :
          CallHash(c) /\ UNCHANGED <<policyVars, storeLog, indexVars, dbVars, lastJob, lineage, rateVars, fetchVars, saveVars, connVars, stepVars>>
    \/ \E c \in CallIds :
          CallOpen(c) /\ UNCHANGED <<policyVars, storeLog, indexVars, dbVars, lastJob, lineage, rateVars, fetchVars, saveVars, connVars, stepVars>>
    \/ \E c \in CallIds :
          CallWrite(c) /\ UNCHANGED <<policyVars, storeLog, indexVars, dbVars, lastJob, lineage, rateVars, fetchVars, saveVars, connVars, stepVars>>

SpecStoreRace == InitStore /\ [][NextStoreRace]_vars

(***************************************************************************)
(* The fetcher's per-host rate limiter under callers that fetch at once.   *)
(* enforceRateLimit runs without giving way from its entry to the await of *)
(* sleep, and again from the timer's firing to its return.  A timer fires  *)
(* at its time or later, never earlier.                                    *)
(***************************************************************************)
MaxPasses == 3
MaxRateClock == 4
RateTickMs == 500

\* resolveRateLimit: the requests per second configured for the host
RpsOf(host) == IF host = <<"b">> THEN 2 ELSE 1

\* Math.max(1000 / rps, 0)
RateInterval(rps) == IF 1000 \div rps > 0 THEN 1000 \div rps ELSE 0

\* line 114: rateState.set(domain, Date.now() + interval), then the call returns
RatePass(c, domain) ==
    /\ rateState' = [rateState EXCEPT ![domain] = now + RateInterval(RpsOf(domain))]
    /\ passLog' = Append(passLog, [domain |-> domain, at |-> now, caller |-> c])
    /\ rateCalls' = [rateCalls EXCEPT ![c] = [pc |-> "idle"]]

\* lines 108-113: enforceRateLimit(domain, rps) up to the sleep, or through
\* to its return when there is nothing to wait for
EnforceRateLimit(c, domain) ==
    /\ rateCalls[c].pc = "idle"
    /\ Len(passLog) + Cardinality({ d \in RateCallers : rateCalls[d].pc = "sleep" }) < MaxPasses
    /\ LET nextAllowed == rateState[domain]
       IN IF now < nextAllowed
          THEN /\ rateCalls' = [rateCalls EXCEPT ![c] =
                     [pc |-> "sleep", domain |-> domain, wakeAt |-> now + (nextAllowed - now)]]
               /\ UNCHANGED <<rateState, passLog>>
          ELSE RatePass(c, domain)

\* the timer of sleep(nextAllowed - now) fires and the call runs to its return
RateWake(c) ==
    /\ rateCalls[c].pc = "sleep"
    /\ now >= rateCalls[c].wakeAt
    /\ RatePass(c, rateCalls[c].domain)

\* time passes
RateTick ==
    /\ now < MaxRateClock * RateTickMs
    /\ now' = now + RateTickMs
    /\ UNCHANGED rateVars

InitRate == PolicyIdle /\ StoreIdle /\ IndexIdle /\ DbIdle /\ AuxIdle

NextRate ==
    \/ \E c \in RateCallers, domain \in RateHosts :
          EnforceRateLimit(c, domain)
          /\ UNCHANGED <<policyVars, storeVars, indexVars, dbVars, lastJob, lineage, calls, fetchVars, saveVars, connVars, stepVars>>
    \/ \E c \in RateCallers :
          RateWake(c)
          /\ UNCHANGED <<policyVars, storeVars, indexVars, dbVars, lastJob, lineage, calls, fetchVars, saveVars, connVars, stepVars>>
    \/ RateTick
          /\ UNCHANGED <<policyVars, storeVars, cooldownEnv, cachedIndex, indexFile, lastDl,
                         dbVars, lastJob, lineage, calls, fetchVars, saveVars, connVars, stepVars>>

SpecRate == InitRate /\ [][NextRate]_vars

(***************************************************************************)
(* The download index on disk (gar-index.ts): setGarRecord step by step,   *)
(* for two calls in progress at once, with a crash of the process at any   *)
(* point.  A path names a file (0: no file); fs.writeFile opens the file   *)
(* the path names, creating or truncating it, and then writes into the     *)
(* file it has opened, whatever path names that file by then; fs.rename    *)
(* makes the new path name the file in one step.                           *)
(***************************************************************************)
MaxSaves == 3

\* the records the connector sets
SaveRecords == { FailedRecord(0, <<"pdf">>), FailedRecord(0, <<"xls">>) }

\* a file being written holds a part of its document, then all of it
PartOf(doc) == [complete |-> FALSE, doc |-> doc]
AllOf(doc) == [complete |-> TRUE, doc |-> doc]

SavesStarted ==
    Len(indexDisk.inodes) + Cardinality({ c \in SaveIds : saves[c].pc = "mkdir" })

\* lines 252-253 and 238: loadIndex(), index.records[url] = record on the
\* cached index, and saveIndex up to its await of ensureIndexDir()
SetGarRecord(c, url, record) ==
    /\ saves[c].pc = "idle"
    /\ SavesStarted < MaxSaves
    /\ cachedIndex' = setGarRecord(cachedIndex, url, record)
    /\ saves' = [saves EXCEPT ![c] = [pc |-> "mkdir"]]
    /\ UNCHANGED indexDisk

\* lines 239-242, first half: JSON.stringify(index) and fs.writeFile opens
\* `${indexPath}.tmp`, truncating the file of that name if there is one
SaveOpen(c) ==
    /\ saves[c].pc = "mkdir"
    /\ LET fd == IF indexDisk.tmp # 0 THEN indexDisk.tmp ELSE Len(indexDisk.inodes) + 1
           inodes == IF indexDisk.tmp # 0
                     THEN [indexDisk.inodes EXCEPT ![fd] = PartOf(cachedIndex)]
                     ELSE Append(indexDisk.inodes, PartOf(cachedIndex))
       IN /\ indexDisk' = [indexDisk EXCEPT !.tmp = fd, !.inodes = inodes]
          /\ saves' = [saves EXCEPT ![c] = [pc |-> "writing", fd |-> fd,
                                            doc |-> cachedIndex] @@ @]
    /\ UNCHANGED cachedIndex

\* line 242, second half: the document is written into the opened file
SaveWrite(c) ==
    /\ saves[c].pc = "writing"
    /\ indexDisk' = [indexDisk EXCEPT !.inodes[saves[c].fd] = AllOf(saves[c].doc)]
    /\ saves' = [saves EXCEPT ![c].pc = "written"]
    /\ UNCHANGED cachedIndex

\* line 243: fs.rename(tmpPath, indexPath); it throws when no file has the
\* temporary name any more.  A call made in the try block of
\* downloadStoreAndExtract (it carries its file) then goes to the catch
\* block; a call made by loadCachedFile makes loadCachedFile return null
\* (GAR connector 286-288), and downloadStoreAndExtract goes on to fetchBuffer
SaveRename(c) ==
    /\ saves[c].pc = "written"
    /\ IF indexDisk.tmp = 0
       THEN /\ saves' = [saves EXCEPT ![c] =
                    IF "file" \in DOMAIN saves[c]
                    THEN [pc |-> IF "resume" \in DOMAIN saves[c]
                                 THEN "fetching" ELSE "threw",
                          file |-> saves[c].file]
                    ELSE [pc |-> "idle"]]
            /\ UNCHANGED indexDisk
       ELSE /\ indexDisk' = [indexDisk EXCEPT !.final = indexDisk.tmp, !.tmp = 0]
            /\ saves' = [saves EXCEPT ![c] = [pc |-> "idle"]]
    /\ UNCHANGED cachedIndex

\* the process dies; what is on disk stays
Crash ==
    /\ \E c \in SaveIds : saves[c].pc \notin {"idle", "crashed"}
    /\ saves' = [c \in SaveIds |-> [pc |-> "crashed"]]
    /\ UNCHANGED <<indexDisk, cachedIndex>>

InitSave == PolicyIdle /\ StoreIdle /\ IndexIdle /\ DbIdle /\ AuxIdle

SaveOthers ==
    <<policyVars, storeVars, now, cooldownEnv, indexFile, lastDl, dbVars, lastJob,
      lineage, calls, rateVars, fetchVars, connVars, stepVars>>

NextSave ==
    \/ \E c \in SaveIds, url \in FileUrls, record \in SaveRecords :
          SetGarRecord(c, url, record) /\ UNCHANGED SaveOthers
    \/ \E c \in SaveIds : SaveOpen(c) /\ UNCHANGED SaveOthers
    \/ \E c \in SaveIds : SaveWrite(c) /\ UNCHANGED SaveOthers
    \/ \E c \in SaveIds : SaveRename(c) /\ UNCHANGED SaveOthers
    \/ Crash /\ UNCHANGED SaveOthers

SpecSave == InitSave /\ [][NextSave]_vars

(***************************************************************************)
(* The connector's choice of the file to download for a detail page        *)
(* (fetchDocument, lines 82-110).  The file links are what findFileLinks   *)
(* returns: distinct URLs, each with one of the five extensions and with   *)
(* the source GAR, UNECE or none.                                          *)
(***************************************************************************)
MaxLinks == 3

LinkUrls == <<"u1", "u2", "u3">>
LinkExts == { <<"docx">>, <<"pdf">>, <<"pptx">>, <<"xls">>, <<"xlsx">> }
LinkSources == {"GAR", "UNECE", Undefined}

\* the link lists of a page: the i-th link has the i-th URL
LinkLists ==
    UNION { { [i \in 1..k |-> [url |-> LinkUrls[i], ext |-> e[i], source |-> src[i]]] :
                e \in [1..k -> LinkExts], src \in [1..k -> LinkSources] } : k \in 0..MaxLinks }

\* list.find(pred): Some(the first element that satisfies it), None if none
Find(list, Pred(_)) ==
    IF \E i \in 1..Len(list) : Pred(list[i])
    THEN Some(list[CHOOSE i \in 1..Len(list) :
                      Pred(list[i]) /\ \A j \in 1..(i-1) : ~Pred(list[j])])
    ELSE None

\* a || b on optional values
OptOr(a, b) == IF a # None THEN a ELSE b

\* lines 368-379: the first file of the list with the best extension
orderByExt(list) ==
    LET byExt(ext) == Find(list, LAMBDA f : ToLowerCase(f.ext) = ext)
    IN OptOr(byExt(<<"docx">>), OptOr(byExt(<<"pdf">>), OptOr(byExt(<<"pptx">>),
       OptOr(byExt(<<"xls">>), OptOr(byExt(<<"xlsx">>),
       IF list # <<>> THEN Some(list[1]) ELSE None)))))

\* mutant: the extension decides before the source does
pickPrimaryFileByExt(fileLinks) ==
    orderByExt(fileLinks)

\* lines 365-385: Some(the primary file), None for no files
pickPrimaryFile(fileLinks) ==
    LET preferSource(source) == SelectSeq(fileLinks, LAMBDA f : f.source = source)
    IN OptOr(orderByExt(preferSource("GAR")),
       OptOr(orderByExt(preferSource("UNECE")), orderByExt(fileLinks)))

\* lines 304-308
buildDownloadTargets(fileLinks, primary) ==
    IF primary # None THEN <<primary[1]>>
    ELSE IF fileLinks = <<>> THEN <<>>
    ELSE <<fileLinks[1]>>

\* lines 82-110 of fetchDocument: the files handed to downloadStoreAndExtract,
\* in order, and whether the message about the skipped mirror is emitted
FetchDocumentFiles ==
    /\ docPick.out = None
    /\ LET fileLinks == docPick.fileLinks
           hasGar == \E i \in 1..Len(fileLinks) : fileLinks[i].source = "GAR"
           hasUnece == \E i \in 1..Len(fileLinks) : fileLinks[i].source = "UNECE"
       IN docPick' = [docPick EXCEPT !.out =
              IF Len(fileLinks) > 0
              THEN Some([downloads |-> buildDownloadTargets(fileLinks, pickPrimaryFile(fileLinks)),
                         skipMessage |-> hasGar /\ hasUnece])
              ELSE Some([downloads |-> <<>>, skipMessage |-> FALSE])]

InitPick ==
    /\ PolicyIdle /\ StoreIdle /\ IndexIdle /\ DbIdle
    /\ calls = [c \in CallIds |-> [pc |-> "idle"]]
    /\ RateIdle /\ FetchIdle /\ SaveIdle
    /\ docPick \in [fileLinks : LinkLists, out : {None}]
    /\ listing = [links |-> <<>>, maxItems |-> 1, out |-> None]
    /\ StepIdle

NextPick ==
    FetchDocumentFiles
    /\ UNCHANGED <<policyVars, storeVars, indexVars, dbVars, lastJob, lineage,
                   calls, rateVars, fetchVars, saveVars, listing, stepVars>>

SpecPick == InitPick /\ [][NextPick]_vars

\* docx before pdf before pptx before xls before xlsx
ExtRank(ext) ==
    CASE ext = <<"docx">> -> 1
      [] ext = <<"pdf">> -> 2
      [] ext = <<"pptx">> -> 3
      [] ext = <<"xls">> -> 4
      [] OTHER -> 5

\* the links of one source
LinksOf(source) ==
    { i \in 1..Len(docPick.fileLinks) : docPick.fileLinks[i].source = source }

\* the links the download is to be taken from: those hosted by GAR if there
\* are any, else those of the UNECE mirror if there are any, else all
PreferredLinks ==
    IF LinksOf("GAR") # {} THEN LinksOf("GAR")
    ELSE IF LinksOf("UNECE") # {} THEN LinksOf("UNECE")
    ELSE 1..Len(docPick.fileLinks)

\* C20: for a page with file links the connector downloads exactly one file;
\* it is one of the preferred links (GAR, else UNECE mirror, else any), none
\* of which has an extension that ranks before its own; and when the page
\* has GAR and mirror links alike, the download is no mirror link and the
\* message about the skipped mirror is emitted.
C20_FileSelection ==
    (docPick.out # None /\ docPick.fileLinks # <<>>) =>
        LET out == docPick.out[1]
        IN /\ Len(out.downloads) = 1
           /\ \E i \in PreferredLinks :
                 /\ out.downloads[1] = docPick.fileLinks[i]
                 /\ \A j \in PreferredLinks :
                       ExtRank(docPick.fileLinks[j].ext) >= ExtRank(docPick.fileLinks[i].ext)
           /\ (LinksOf("GAR") # {} /\ LinksOf("UNECE") # {})
                 => out.downloads[1].source # "UNECE" /\ out.skipMessage

\* a page whose mirror link has the better extension and comes first, and
\* whose two GAR links come in the reverse of the extension order
C20_Witness ==
    /\ docPick.out # None
    /\ Len(docPick.fileLinks) = 3
    /\ docPick.fileLinks[1].source = "UNECE" /\ docPick.fileLinks[1].ext = <<"docx">>
    /\ docPick.fileLinks[2].source = "GAR" /\ docPick.fileLinks[2].ext = <<"xls">>
    /\ docPick.fileLinks[3].source = "GAR" /\ docPick.fileLinks[3].ext = <<"pdf">>
    /\ docPick.out[1].downloads = <<docPick.fileLinks[3]>>
    /\ docPick.out[1].skipMessage

(***************************************************************************)
(* The connector's pass over an index page (fetchGlobalAutoRegs).  A       *)
(* detail link is [url, date, ok]: date is the page's published or         *)
(* document date as written, ok whether fetchDocument returns a document   *)
(* for it (it returns null for a page without title, and may throw).       *)
(* Times are counted in days.                                              *)
(***************************************************************************)
MaxListed == 3
MaxItems == 2

ListUrls == <<"d1", "d2", "d3", "d4">>

\* dates as pages carry them: none, ISO, day.month.year, and text that is no date
PageDates ==
    { [form |-> "none", day |-> 0], [form |-> "iso", day |-> 1], [form |-> "iso", day |-> 3],
      [form |-> "dmy", day |-> 2], [form |-> "text", day |-> 3] }

\* the link lists of an index page: the i-th link has the i-th URL
DetailLists ==
    UNION { { [i \in 1..k |-> [url |-> ListUrls[i], date |-> d[i], ok |-> o[i]]] :
                d \in [1..k -> PageDates], o \in [1..k -> BOOLEAN] } : k \in 0..MaxListed }

\* lines 310-324: Date.parse reads the ISO form, the pattern match the
\* day.month.year form; anything else counts as 0
parseDate(date) ==
    CASE date.form = "none" -> 0
      [] date.form = "iso" -> date.day
      [] date.form = "dmy" -> date.day
      [] OTHER -> 0

\* list.slice(0, n)
Slice(list, n) == SubSeq(list, 1, IF n < Len(list) THEN n ELSE Len(list))

\* Array.prototype.sort with the comparator of lines 54-58: descending by
\* parsed date, documents of equal date in their order of arrival
RECURSIVE SortByDateDesc(_)
SortByDateDesc(docs) ==
    IF docs = <<>> THEN <<>>
    ELSE LET init == SortByDateDesc(SubSeq(docs, 1, Len(docs) - 1))
             last == docs[Len(docs)]
             k == Cardinality({ i \in 1..Len(init) :
                      parseDate(init[i].date) >= parseDate(last.date) })
         IN SubSeq(init, 1, k) \o <<last>> \o SubSeq(init, k + 1, Len(init))

\* line 162: fetchDetailLinks returns the first maxItems links of the page
fetchDetailLinks(pageLinks, maxItems) == Slice(pageLinks, maxItems)

\* lines 44-59
fetchGlobalAutoRegs(pageLinks, maxItems) ==
    LET detailLinks == fetchDetailLinks(pageLinks, maxItems)
        results == SelectSeq(detailLinks, LAMBDA link : link.ok)
    IN Slice(SortByDateDesc(results), maxItems)

FetchGlobalAutoRegs ==
    /\ listing.out = None
    /\ listing' = [listing EXCEPT !.out =
            Some(fetchGlobalAutoRegs(listing.links, listing.maxItems))]

InitList ==
    /\ PolicyIdle /\ StoreIdle /\ IndexIdle /\ DbIdle
    /\ calls = [c \in CallIds |-> [pc |-> "idle"]]
    /\ RateIdle /\ FetchIdle /\ SaveIdle
    /\ docPick = [fileLinks |-> <<>>, out |-> None]
    /\ listing \in [links : DetailLists, maxItems : 1..MaxItems, out : {None}]
    /\ StepIdle

NextList ==
    FetchGlobalAutoRegs
    /\ UNCHANGED <<policyVars, storeVars, indexVars, dbVars, lastJob, lineage,
                   calls, rateVars, fetchVars, saveVars, docPick,
                   stepVars>>

SpecList == InitList /\ [][NextList]_vars

\* the documents of the page: the links fetchDocument has a document for
Discovered == { i \in 1..Len(listing.links) : listing.links[i].ok }

\* C21: the result of fetchGlobalAutoRegs is in descending order of parsed
\* date, and it is the maxItems most recent of all documents discovered on
\* the index page: it has maxItems documents, or all of them when there are
\* fewer, and no document left out is more recent than one returned.
C21_MostRecentOfAll ==
    listing.out # None =>
        LET out == listing.out[1]
        IN /\ \A i, j \in 1..Len(out) :
                 i < j => parseDate(out[i].date) >= parseDate(out[j].date)
           /\ Len(out) = IF Cardinality(Discovered) < listing.maxItems
                         THEN Cardinality(Discovered) ELSE listing.maxItems
           /\ \A i \in Discovered :
                 (\A k \in 1..Len(out) : out[k] # listing.links[i])
                     => \A k \in 1..Len(out) :
                           parseDate(out[k].date) >= parseDate(listing.links[i].date)

\* C19: at every point of every setGarRecord call, and after a crash at any
\* such point, the index file at its final path is absent (as before the
\* first save) or holds a complete document.
C19_IndexNeverPartial ==
    indexDisk.final # 0 => indexDisk.inodes[indexDisk.final].complete

\* C14: any two returns of enforceRateLimit for the same host are at least
\* one interval (1000 / rps milliseconds) apart, whichever callers they
\* belong to and however the callers' steps interleave.
C14_RateLimitSpacing ==
    \A i, j \in 1..Len(passLog) :
        (i < j /\ passLog[i].domain = passLog[j].domain)
            => passLog[j].at - passLog[i].at >= RateInterval(RpsOf(passLog[i].domain))

\* both calls have returned, they were for the same slot and brought
\* different bytes
BothReturned ==
    /\ \A c \in CallIds : calls[c].pc = "done"
    /\ calls[1].safeName = calls[2].safeName
    /\ calls[1].buffer # calls[2].buffer

\* C13: once two storeRemoteFile calls for the same URL and extension with
\* different bytes have both returned, however their steps interleaved, the
\* slot holds the bytes of one of them and the digest and size each call
\* returned are those of the bytes in the slot.
C13_ConcurrentStoresAgree ==
    BothReturned =>
        LET onDisk == ReadFile(files, calls[1].safeName)
        IN /\ onDisk \in { calls[1].buffer, calls[2].buffer }
           /\ \A c \in CallIds :
                 /\ calls[c].result.sha256 = sha256Hex(onDisk)
                 /\ calls[c].result.size = Len(onDisk)

(***************************************************************************)
(* Claims about the policy engine.                                         *)
(***************************************************************************)
\* the policy the last evaluateSource call worked with, and what it returned
EvalPolicy == cachedPolicy[1]
EvalUrl == lastEval[1].url
EvalResult == lastEval[1].result
Evaluated == lastEval # None /\ ~EvalResult.threw

\* no profile of the policy matches the canonical form of the URL
NoProfileMatches(policy, url) ==
    \A i \in 1..Len(policy.profiles) :
        ~matchesProfile(policy.profiles[i], canonicalizeUrl(url, policy))

\* the host (www. stripped) contains no entry of any tier's domain list
NoDomainEntryMatches(policy, url) ==
    \A i \in 1..Len(policy.tiers) : \A k \in 1..Len(policy.tiers[i].domains) :
        ~Includes(ReplaceFirst(url.host, "www."), policy.tiers[i].domains[k])

\* C3: a URL that matches no profile and whose host matches no entry of any
\* tier's domain list evaluates to TIER_D_QUARANTINE with route review_queue
\* and allow_write_main false, never to route main.
C3_DefaultDeny ==
    (Evaluated /\ NoProfileMatches(EvalPolicy, EvalUrl)
               /\ NoDomainEntryMatches(EvalPolicy, EvalUrl))
    => /\ EvalResult.tier = TIER_D
       /\ EvalResult.route = "review_queue"
       /\ EvalResult.allow_write_main = FALSE

\* an unknown host was evaluated under a policy that has profiles and a
\* domain table that writes to main
C3_Witness ==
    /\ Evaluated
    /\ NoProfileMatches(EvalPolicy, EvalUrl)
    /\ NoDomainEntryMatches(EvalPolicy, EvalUrl)
    /\ EvalPolicy.profiles # <<>>
    /\ \E i \in 1..Len(EvalPolicy.tiers) :
          EvalPolicy.tiers[i].domains # <<>> /\ EvalPolicy.tiers[i].allow_write_main = Some(TRUE)
    /\ EvalResult.reason = "unrecognized_domain"

\* the matched profile of a result (by profile_id) has requires_review set
MatchedProfileForcesReview(policy, result) ==
    \E i \in 1..Len(policy.profiles) :
        /\ policy.profiles[i].id = result.profile_id
        /\ policy.profiles[i].requires_review

\* C10: in every result of evaluateSource, route is main exactly when the
\* tier allows main-table writes and no matched profile forces review; in
\* every other case it is review_queue.
C10_RoutingRule ==
    Evaluated =>
       /\ EvalResult.route \in {"main", "review_queue"}
       /\ EvalResult.route = "main" <=>
             (/\ EvalResult.allow_write_main
              /\ ~MatchedProfileForcesReview(EvalPolicy, EvalResult))

\* a profile of a tier that may write main, forcing review, routed to review
C10_Witness ==
    /\ Evaluated
    /\ EvalResult.profile_id # Undefined
    /\ EvalResult.allow_write_main
    /\ MatchedProfileForcesReview(EvalPolicy, EvalResult)
    /\ EvalResult.route = "review_queue"

\* the profiles of the policy, by index, that the canonical form of the URL
\* satisfies: same domain, path prefix, every required parameter allowed
MatchingProfiles(policy, url) ==
    LET canonical == canonicalizeUrl(url, policy)
    IN { i \in 1..Len(policy.profiles) :
            LET p == policy.profiles[i]
            IN /\ ReplaceFirst(canonical.host, "www.") = p.domain
               /\ StartsWith(canonical.path, p.path)
               /\ \A k \in 1..Len(p.required_query_params) :
                     \E q \in 1..Len(canonical.search) :
                        /\ canonical.search[q][1] = p.required_query_params[k][1]
                        /\ canonical.search[q][2] \in p.required_query_params[k][2]
                        /\ \A e \in 1..(q - 1) :
                              canonical.search[e][1] # p.required_query_params[k][1] }

FirstOf(S) == CHOOSE i \in S : \A j \in S : i <= j

\* C11: evaluateSource takes tier, stage and review flag from the first
\* profile, in configuration order, that the canonical URL matches; the
\* domain-to-tier table decides only when no profile matches.
C11_ProfilePrecedence ==
    Evaluated =>
        LET matching == MatchingProfiles(EvalPolicy, EvalUrl)
        IN IF matching # {}
           THEN LET first == EvalPolicy.profiles[FirstOf(matching)]
                IN /\ EvalResult.profile_id = first.id
                   /\ EvalResult.tier = first.tier
                   /\ EvalResult.stage = first.stage
                   /\ EvalResult.requires_review = first.requires_review
                   /\ EvalResult.reason = Undefined
           ELSE /\ EvalResult.profile_id = Undefined
                /\ EvalResult.reason \in {"domain_tier_match", "unrecognized_domain"}

\* two profiles of different tiers match the URL and the domain table names
\* a third answer for the host: the first profile decided
C11_Witness ==
    /\ Evaluated
    /\ Cardinality(MatchingProfiles(EvalPolicy, EvalUrl)) = 2
    /\ \E i, j \in MatchingProfiles(EvalPolicy, EvalUrl) :
          /\ i < j
          /\ EvalPolicy.profiles[i].tier # EvalPolicy.profiles[j].tier
          /\ EvalResult.tier = EvalPolicy.profiles[i].tier
    /\ findTierForDomain(ReplaceFirst(EvalUrl.host, "www."), EvalPolicy)
          \notin {Null, EvalResult.tier}

(***************************************************************************)
(* The connector's download step on its own: downloads of the files of     *)
(* detail pages while the clock advances.                                  *)
(***************************************************************************)
MaxTicks == 3
TickMs == 30000

\* the file links of the detail pages (url and extension of each)
GarFiles == { [url |-> "u1", ext |-> <<"pdf">>], [url |-> "u2", ext |-> <<"xls">>] }

CooldownEnvs ==
    { [set |-> FALSE], [set |-> TRUE, numeric |-> FALSE] }
    \cup { [set |-> TRUE, numeric |-> TRUE, value |-> v] : v \in {-1, 0, 1} }

\* one call of downloadStoreAndExtract(file)
DownloadStoreAndExtract(file, fetched, extractThrows) ==
    LET out == downloadStoreAndExtract(files, cachedIndex, CooldownMinutes(cooldownEnv),
                                        now, file, fetched, extractThrows)
    IN /\ files' = out.files
       /\ cachedIndex' = out.index
       /\ indexFile' = out.index
       /\ lastDl' = Some([file |-> file, at |-> now,
                           before |-> getGarRecord(cachedIndex, file.url),
                           requests |-> out.requests, result |-> out.result])
       /\ UNCHANGED <<now, cooldownEnv, storeLog>>

\* time passes
Tick ==
    /\ now < MaxTicks * TickMs
    /\ now' = now + TickMs
    /\ UNCHANGED <<cooldownEnv, cachedIndex, indexFile, lastDl, storeVars>>

InitDownload ==
    /\ PolicyIdle /\ StoreIdle
    /\ now = 0
    /\ cooldownEnv \in CooldownEnvs
    /\ cachedIndex = EmptyIndex
    /\ indexFile = EmptyIndex
    /\ lastDl = None
    /\ DbIdle
    /\ AuxIdle

NextDownload ==
    \/ \E file \in GarFiles, fetched \in {None} \cup {Some(b) : b \in Buffers},
          extractThrows \in BOOLEAN :
            DownloadStoreAndExtract(file, fetched, extractThrows)
            /\ UNCHANGED <<policyVars, dbVars, lastJob, lineage, auxVars>>
    \/ Tick /\ UNCHANGED <<policyVars, dbVars, lastJob, lineage, auxVars>>

SpecDownload == InitDownload /\ [][NextDownload]_vars

(***************************************************************************)
(* The fetcher (fetcher.ts): one fetchHtml or fetchBuffer call at a time,  *)
(* step by step from await to await, against servers that answer as they   *)
(* please.  fetchBuffer is called by the connector's                       *)
(* downloadStoreAndExtract, whose steps before and after the fetch belong  *)
(* to the call.                                                            *)
(***************************************************************************)
MaxFetches == 2
MaxRetries == 2
BackoffMs == 500

\* where the file links of the connector point
FileLocation(u) ==
    IF u = "u1"
    THEN [valid |-> TRUE, host |-> <<"a">>, path |-> <<"/", "d", "/">>, search |-> <<>>]
    ELSE [valid |-> TRUE, host |-> <<"b">>, path |-> <<"/", "d", "/">>, search |-> <<>>]

\* the pages fetchHtml is asked for
HtmlTargets ==
    [valid : {TRUE}, host : { <<"a">>, <<"www.", "a">> }, path : Paths, search : {<<>>}]
    \cup {InvalidUrl}

\* a robots.txt body: the path prefixes it disallows for every user agent
RobotsBodies == { <<>>, << <<"/", "d">> >>, << <<"/">> >> }

\* what a server may answer to the robots.txt request
RobotsResponses ==
    { [threw |-> TRUE, ok |-> FALSE, body |-> <<>>] }
    \cup [threw : {FALSE}, ok : BOOLEAN, body : RobotsBodies]

\* response bodies: a document and two anti-bot pages
Bodies == { <<"x">>, <<"x", "CAPTCHA">>, <<"Access Denied">> }

\* what a server may answer to a content request
ContentResponses ==
    { [threw |-> TRUE, ok |-> FALSE, body |-> <<>>] }
    \cup [threw : {FALSE}, ok : BOOLEAN, body : Bodies]

\* the bytes of a body, as one buffer
RECURSIVE BytesOf(_)
BytesOf(body) == IF body = <<>> THEN "" ELSE Head(body) \o BytesOf(Tail(body))

\* lines 140-143
looksLikeCaptcha(html) ==
    LET lower == ToLowerCase(html)
    IN \/ Includes(lower, <<"captcha">>)
       \/ Includes(lower, <<"access denied">>)
       \/ Includes(lower, <<"bot detection">>)

\* line 132: robotsParser(robotsUrl, body)
robotsParser(host, body) == [host |-> host, disallow |-> body]

\* parser.isAllowed(url): undefined for a URL of another host than the
\* robots.txt was read from
isAllowed(parser, url) ==
    IF parser.host # url.host THEN Undefined
    ELSE IF \E i \in 1..Len(parser.disallow) : StartsWith(url.path, parser.disallow[i])
    THEN "disallowed"
    ELSE "allowed"

\* mutant: robots.txt never blocks
RobotsBlocksNever(parser, url) == FALSE

\* line 135: !parser.isAllowed(url.toString(), userAgent)
RobotsBlocks(parser, url) == isAllowed(parser, url) # "allowed"

\* line 119: url.hostname.replace("www.", "")
RobotsDomain(url) == ReplaceFirst(url.host, "www.")

\* mutant: one attempt more than the retry count allows
fetchWithRetryStepOneMore(res, attempt, retries) ==
    IF res.threw
    THEN IF attempt > retries THEN "throw" ELSE "sleep"
    ELSE IF ~res.ok /\ attempt <= retries THEN "continue" ELSE "return"

\* lines 89-102: what fetchWithRetry does with the outcome of one attempt
fetchWithRetryStep(res, attempt, retries) ==
    IF res.threw
    THEN IF attempt >= retries THEN "throw" ELSE "sleep"
    ELSE IF ~res.ok /\ attempt < retries THEN "continue" ELSE "return"

\* lines 41-49 and 75-81: what fetchHtml or fetchBuffer makes of the
\* response fetchWithRetry returned
FetchOutcome(kind, res, cfg) ==
    IF ~res.ok THEN [ok |-> FALSE, error |-> "fetch_failed", body |-> <<>>]
    ELSE IF kind = "html" /\ cfg.deny_on_captcha_or_anti_bot /\ looksLikeCaptcha(res.body)
    THEN [ok |-> FALSE, error |-> "captcha", body |-> <<>>]
    ELSE [ok |-> TRUE, error |-> Undefined, body |-> res.body]

\* the call throws
Thrown(error) == [ok |-> FALSE, error |-> error, body |-> <<>>]

\* the state of the storage and the index, which only the end of a
\* connector download changes
DownloadState == <<files, storeLog, cachedIndex, indexFile, lastDl, cooldownEnv>>

\* the call ends.  fetchHtml returns or throws to its caller; fetchBuffer
\* returns or throws into downloadStoreAndExtract (lines 229-262), which
\* stores the bytes and records the download, or records the failure
FetchEnd(call, outcome) ==
    /\ fetchCall' = [pc |-> "done", n |-> call.n, kind |-> call.kind, url |-> call.url,
                     retries |-> call.retries, outcome |-> outcome]
    /\ IF call.kind = "buffer"
       THEN DownloadStoreAndExtract(call.file,
                IF outcome.ok THEN Some(BytesOf(outcome.body)) ELSE None, FALSE)
       ELSE UNCHANGED <<DownloadState, now>>

\* the call goes on
FetchGoesOn(call) ==
    /\ fetchCall' = call
    /\ UNCHANGED <<DownloadState, now>>

\* lines 135-137, then line 25: blocked by robots.txt, or on to the rate limit
AfterRobots(call, parser) ==
    IF RobotsBlocks(parser, call.url)
    THEN FetchEnd(call, Thrown("robots"))
    ELSE FetchGoesOn([call EXCEPT !.pc = "rate"])

\* lines 18-24 and 118-121: the call up to its first await
FetchStart(call) ==
    /\ cachedPolicy' = Some(loadPolicy)
    /\ UNCHANGED <<policyFile, lastEval, crawler>>
    /\ IF ~call.url.valid
       THEN FetchEnd(call, Thrown("invalid_url")) /\ UNCHANGED <<robotsCache, requests>>
       ELSE IF ~crawler.robots_txt_enforced
       THEN FetchGoesOn([call EXCEPT !.pc = "rate"]) /\ UNCHANGED <<robotsCache, requests>>
       ELSE IF robotsCache[RobotsDomain(call.url)] = None
       THEN FetchGoesOn([call EXCEPT !.pc = "robots"]) /\ UNCHANGED <<robotsCache, requests>>
       ELSE AfterRobots(call, robotsCache[RobotsDomain(call.url)][1])
            /\ UNCHANGED <<robotsCache, requests>>

\* fetchHtml(url, {retries})
FetchHtml(url, retries) ==
    /\ fetchCall.pc \in {"idle", "done"}
    /\ fetchCall.n < MaxFetches
    /\ FetchStart([pc |-> "start", n |-> fetchCall.n + 1, kind |-> "html",
                   url |-> canonicalizeUrl(url, loadPolicy), retries |-> retries,
                   attempt |-> 0, file |-> None, wakeAt |-> 0])
    /\ UNCHANGED rateState

\* downloadStoreAndExtract(file) of the connector: lines 214-225 return
\* without a fetch in the cooldown and on a cache hit, line 229 calls
\* fetchBuffer(file.url, {retries})
FetchBuffer(file, retries) ==
    /\ fetchCall.pc \in {"idle", "done"}
    /\ fetchCall.n < MaxFetches
    /\ LET call == [pc |-> "start", n |-> fetchCall.n + 1, kind |-> "buffer",
                    url |-> canonicalizeUrl(FileLocation(file.url), loadPolicy),
                    retries |-> retries, attempt |-> 0, file |-> file, wakeAt |-> 0]
       IN IF \/ shouldSkipFailed(cachedIndex, file.url, CooldownMinutes(cooldownEnv), now)
             \/ CacheHit(files, cachedIndex, file.url)
          THEN /\ FetchEnd(call, Thrown("not_called"))
               /\ UNCHANGED <<policyVars, crawler, robotsCache, requests>>
          ELSE FetchStart(call)
    /\ UNCHANGED rateState

\* lines 122-137: the answer to the robots.txt request arrives
RobotsResponse(res) ==
    /\ fetchCall.pc = "robots"
    /\ LET body == IF ~res.threw /\ res.ok THEN res.body ELSE <<>>
           parser == robotsParser(fetchCall.url.host, body)
       IN /\ requests' = Append(requests,
                [n |-> fetchCall.n, kind |-> "robots", attempt |-> 0, at |-> now,
                 failed |-> res.threw \/ ~res.ok])
          /\ robotsCache' = [robotsCache EXCEPT ![RobotsDomain(fetchCall.url)] = Some(parser)]
          /\ AfterRobots(fetchCall, parser)
    /\ UNCHANGED <<policyVars, crawler, rateState>>

\* line 25, enforceRateLimit on its own: the call sleeps until the host's
\* next allowed time, then moves it on by one interval
FetchRateLimit ==
    /\ fetchCall.pc = "rate"
    /\ LET host == fetchCall.url.host
           t == IF now < rateState[host] THEN rateState[host] ELSE now
       IN /\ now' = t
          /\ rateState' = [rateState EXCEPT ![host] = t + RateInterval(RpsOf(host))]
    /\ fetchCall' = [fetchCall EXCEPT !.pc = "attempt"]
    /\ UNCHANGED <<policyVars, crawler, robotsCache, requests, DownloadState>>

\* lines 86-102: one attempt of fetchWithRetry is answered, or fails
ContentResponse(res) ==
    /\ fetchCall.pc = "attempt"
    /\ requests' = Append(requests,
            [n |-> fetchCall.n, kind |-> "content", attempt |-> fetchCall.attempt, at |-> now,
             failed |-> res.threw \/ ~res.ok])
    /\ LET step == fetchWithRetryStep(res, fetchCall.attempt, fetchCall.retries)
       IN CASE step = "throw" -> FetchEnd(fetchCall, Thrown("transport"))
            [] step = "sleep" ->
                 FetchGoesOn([fetchCall EXCEPT !.pc = "backoff",
                     !.wakeAt = now + BackoffMs * (fetchCall.attempt + 1)])
            [] step = "continue" ->
                 FetchGoesOn([fetchCall EXCEPT !.attempt = @ + 1])
            [] OTHER -> FetchEnd(fetchCall, FetchOutcome(fetchCall.kind, res, crawler))
    /\ UNCHANGED <<policyVars, crawler, robotsCache, rateState>>

\* line 101: the timer of sleep(500 * (attempt + 1)) fires
FetchWake ==
    /\ fetchCall.pc = "backoff"
    /\ now' = fetchCall.wakeAt
    /\ fetchCall' = [fetchCall EXCEPT !.pc = "attempt", !.attempt = @ + 1]
    /\ UNCHANGED <<policyVars, crawler, robotsCache, requests, rateState, DownloadState>>

InitFetch ==
    /\ PolicyIdle /\ StoreIdle /\ IndexIdle /\ DbIdle
    /\ calls = [c \in CallIds |-> [pc |-> "idle"]]
    /\ RateIdle
    /\ crawler \in [robots_txt_enforced : BOOLEAN, deny_on_captcha_or_anti_bot : BOOLEAN]
    /\ robotsCache = [d \in RobotsDomains |-> None]
    /\ requests = <<>>
    /\ fetchCall = [pc |-> "idle", n |-> 0]
    /\ SaveIdle
    /\ ConnIdle
    /\ StepIdle

FetchOthers == <<dbVars, lastJob, lineage, calls, rateCalls, passLog, saveVars, connVars, stepVars>>

NextFetch ==
    \/ \E url \in HtmlTargets, retries \in 0..MaxRetries :
          FetchHtml(url, retries) /\ UNCHANGED FetchOthers
    \/ \E file \in GarFiles, retries \in 0..MaxRetries :
          FetchBuffer(file, retries) /\ UNCHANGED FetchOthers
    \/ \E res \in RobotsResponses : RobotsResponse(res) /\ UNCHANGED FetchOthers
    \/ FetchRateLimit /\ UNCHANGED FetchOthers
    \/ \E res \in ContentResponses : ContentResponse(res) /\ UNCHANGED FetchOthers
    \/ FetchWake /\ UNCHANGED FetchOthers

SpecFetch == InitFetch /\ [][NextFetch]_vars

\* every attempt of fetchWithRetry ends, with a response or with a failure:
\* its request is aborted after timeoutMs (lines 87-88); and the timer of
\* the sleep before a retry fires.  Nothing obliges a caller to start a fetch,
\* and the robots.txt request has no timeout.
SpecFetchFair ==
    /\ SpecFetch
    /\ WF_vars(\E res \in ContentResponses : ContentResponse(res) /\ UNCHANGED FetchOthers)
    /\ WF_vars(FetchWake /\ UNCHANGED FetchOthers)

(***************************************************************************)
(* Claims about the fetcher.                                               *)
(***************************************************************************)
\* fetchHtml or fetchBuffer was called and is in progress or over
FetchCalled ==
    /\ fetchCall.n > 0
    /\ ~(fetchCall.pc = "done" /\ fetchCall.outcome.error = "not_called")

\* the requests the call in progress has issued
OwnRequests == { i \in 1..Len(requests) : requests[i].n = fetchCall.n }

\* the robots.txt on record for the domain of the call's URL disallows it
RobotsDisallows ==
    /\ fetchCall.url.valid
    /\ robotsCache[RobotsDomain(fetchCall.url)] # None
    /\ isAllowed(robotsCache[RobotsDomain(fetchCall.url)][1], fetchCall.url) = "disallowed"

\* C15: with robots enforcement enabled, a fetchHtml or fetchBuffer call
\* whose canonical URL the robots.txt disallows has failed with the robots
\* error, and the only request it has issued, if any, is the one for
\* robots.txt: no content request was made for it.
C15_RobotsFailClosed ==
    (crawler.robots_txt_enforced /\ FetchCalled /\ RobotsDisallows)
        => /\ fetchCall.pc = "done"
           /\ fetchCall.outcome = Thrown("robots")
           /\ \A i \in OwnRequests : requests[i].kind = "robots"

\* a second call is blocked by the robots.txt it has fetched itself, after
\* the first call went through to its content request
C15_Witness ==
    /\ crawler.robots_txt_enforced /\ FetchCalled /\ RobotsDisallows
    /\ fetchCall.pc = "done"
    /\ \E i \in OwnRequests : requests[i].kind = "robots"
    /\ \E i \in 1..Len(requests) : requests[i].kind = "content"

\* the content requests the call in progress has issued
OwnAttempts == { i \in OwnRequests : requests[i].kind = "content" }

\* C17: a call with retry count r issues at most r + 1 content requests; when
\* every one of them failed (transport failure or a status that is not 2xx)
\* the call has not succeeded once it is over; and fetchWithRetry, once
\* entered, comes to its end.
C17_RetryBounded ==
    /\ [](FetchCalled =>
            /\ Cardinality(OwnAttempts) <= fetchCall.retries + 1
            /\ (fetchCall.pc = "done" /\ \A i \in OwnAttempts : requests[i].failed)
                  => ~fetchCall.outcome.ok)
    /\ (fetchCall.pc = "attempt") ~> (fetchCall.pc = "done")

\* a call with two retries is over after three failed attempts, one of them
\* a transport failure, the last one a status that is not 2xx
C17_Witness ==
    /\ FetchCalled
    /\ fetchCall.pc = "done"
    /\ fetchCall.retries = 2
    /\ Cardinality(OwnAttempts) = 3
    /\ \A i \in OwnAttempts : requests[i].failed
    /\ fetchCall.outcome = Thrown("fetch_failed")
    /\ now > 0

\* C18: between two consecutive attempts of one call lies a wait of at least
\* 500 ms times the index of the retry (500 ms before the first retry, 1000 ms
\* before the second), whether the earlier attempt failed in transport or
\* with a status that is not 2xx.
C18_BackoffBeforeRetry ==
    \A i, j \in 1..Len(requests) :
        ( /\ requests[i].kind = "content" /\ requests[j].kind = "content"
          /\ requests[i].n = requests[j].n
          /\ requests[j].attempt = requests[i].attempt + 1 )
            => requests[j].at - requests[i].at >= BackoffMs * requests[j].attempt

\* the bytes of the anti-bot pages a server may send
AntiBotBytes == { BytesOf(b) : b \in { c \in Bodies : looksLikeCaptcha(c) } }

\* C16: with deny_on_captcha_or_anti_bot enabled, no fetchHtml or fetchBuffer
\* call succeeds with a body that matches a captcha signature, and no such
\* body is in the object storage.
C16_AntiBotNeverStored ==
    crawler.deny_on_captcha_or_anti_bot =>
        /\ (fetchCall.pc = "done" /\ fetchCall.outcome.ok)
              => ~looksLikeCaptcha(fetchCall.outcome.body)
        /\ \A f \in files : f.data \notin AntiBotBytes

(***************************************************************************)
(* Claims about the object store.                                          *)
(***************************************************************************)
\* calls i and i+1 of the log are two calls in sequence for the same source
\* URL and extension, both of which returned
StoredTwice(i) ==
    /\ i \in 1..(Len(storeLog) - 1)
    /\ storeLog[i].url = storeLog[i+1].url
    /\ storeLog[i].ext = storeLog[i+1].ext
    /\ ~storeLog[i].threw /\ ~storeLog[i+1].threw

\* C4: two storeRemoteFile calls in sequence for the same URL and extension
\* return the same object id; the second is marked cached and leaves the
\* stored bytes as they were after the first call (the first call's bytes when
\* the first call wrote the slot); the second call's sha256 and size are
\* those of the bytes on disk, whatever bytes it was given.
C4_IdempotentStorage ==
    \A i \in 1..(Len(storeLog) - 1) : StoredTwice(i) =>
        LET first == storeLog[i]
            second == storeLog[i+1]
        IN /\ second.result[1].id = first.result[1].id
           /\ second.result[1].cached = TRUE
           /\ second.onDisk = first.onDisk
           /\ ~first.result[1].cached => second.onDisk = Some(first.buffer)
           /\ second.result[1].sha256 = sha256Hex(second.onDisk[1])
           /\ second.result[1].size = Len(second.onDisk[1])

\* the slot was empty, the first call wrote it and the second call came with
\* other bytes of another length
C4_Witness ==
    \E i \in 1..(Len(storeLog) - 1) :
        /\ StoredTwice(i)
        /\ ~storeLog[i].result[1].cached
        /\ storeLog[i+1].buffer # storeLog[i].buffer
        /\ Len(storeLog[i+1].buffer) # Len(storeLog[i].buffer)
        /\ storeLog[i+1].result[1].cached

(***************************************************************************)
(* Claims about the download index.                                        *)
(***************************************************************************)
Dl == lastDl[1]
DlCooldown == CooldownMinutes(cooldownEnv)
DlCooldownPositive == ~DlCooldown.nan /\ DlCooldown.value > 0

\* the last call found a failed record with a last_attempt for its URL
DlFoundFailed ==
    /\ lastDl # None
    /\ Dl.before # None
    /\ Dl.before[1].status = "failed"
    /\ Dl.before[1].last_attempt # None

\* milliseconds between the recorded last attempt and the call
DlElapsed == Dl.at - Dl.before[1].last_attempt[1]

\* C5: a failed record whose last_attempt is less than the (positive)
\* cooldown in the past makes downloadStoreAndExtract skip: no network
\* request, error "cooldown_skip", the record unchanged in the index and in
\* the index file; once the elapsed time is at least the cooldown, or the
\* cooldown is 0, negative or no number, the download is attempted.
C5_CooldownSuppression ==
    DlFoundFailed =>
       IF DlCooldownPositive /\ DlElapsed < DlCooldown.value * MsPerMinute
       THEN /\ Dl.requests = 0
            /\ Dl.result.error = "cooldown_skip"
            /\ cachedIndex[Dl.file.url] = Dl.before
            /\ indexFile[Dl.file.url] = Dl.before
       ELSE /\ Dl.requests = 1
            /\ Dl.result.error # "cooldown_skip"

\* a retry of a failed download some time after the failure, still inside
\* the cooldown window, was skipped
C5_Witness ==
    /\ DlFoundFailed
    /\ DlCooldownPositive
    /\ DlElapsed > 0
    /\ DlElapsed < DlCooldown.value * MsPerMinute
    /\ Dl.result.error = "cooldown_skip"

\* a retry of a failed download exactly one cooldown after the failure was attempted
C5_WitnessAttempt ==
    /\ DlFoundFailed
    /\ DlCooldownPositive
    /\ DlElapsed = DlCooldown.value * MsPerMinute
    /\ Dl.requests = 1

(***************************************************************************)
(* Ontology and validator (packages/ontology/src/schemas.ts,               *)
(* ontology/validator.ts).  A regulation item is a record [id,             *)
(* jurisdiction, title, url, evidence, confidence, trust_tier,             *)
(* source_document_id]; its other fields always pass the schema and are    *)
(* left out.  Confidence is counted in hundredths (0.7 is 70).             *)
(***************************************************************************)
JURISDICTIONS == {"EU", "DE", "FR", "UK", "UN_ECE", "GLOBAL", "ES", "IT", "CZ", "PL"}

\* the permitted domains; DomA and DomB stand for two of the list
ALLOWED_DOMAINS == <<DomA, DomB>>

\* config/runtime.ts: confidence_min when nothing overrides it
DefaultConfidenceMin == 70
getRuntimeConfig == [confidence_min |-> DefaultConfidenceMin]

\* CitationSchema: title z.string().min(1), url z.string().url()
CitationSchemaOk(c) == c.title # "" /\ c.url.valid

\* RegulationItemSchema.safeParse(raw).success
RegulationItemSchemaOk(raw) ==
    /\ raw.jurisdiction \in JURISDICTIONS
    /\ raw.title # ""
    /\ raw.url.valid
    /\ \A i \in 1..Len(raw.evidence.citations) : CitationSchemaOk(raw.evidence.citations[i])
    /\ raw.confidence \in 0..100
    /\ raw.trust_tier \in TRUST_TIERS \cup {Undefined}

\* mutant: the host must equal a permitted domain
isAllowedDomainExact(url) ==
    IF ~url.valid THEN FALSE
    ELSE \E i \in 1..Len(ALLOWED_DOMAINS) :
            ReplaceFirst(url.host, "www.") = ALLOWED_DOMAINS[i]

isAllowedDomain(url) ==
    IF ~url.valid THEN FALSE
    ELSE LET host == ReplaceFirst(url.host, "www.")
         IN \E i \in 1..Len(ALLOWED_DOMAINS) : Includes(host, ALLOWED_DOMAINS[i])

ValidationFailed(reason) == [ok |-> FALSE, data |-> None, reason |-> reason]

\* `Confidence below threshold (${confidence_min})`, the minimum in hundredths
ConfidenceReason ==
    "Confidence below threshold (" \o ToString(getRuntimeConfig.confidence_min) \o "/100)"

\* mutant: the citation check is left out
validateRegulationItemNoEvidence(raw) ==
    IF ~RegulationItemSchemaOk(raw) THEN ValidationFailed("Schema validation failed")
    ELSE IF ~isAllowedDomain(raw.url) THEN ValidationFailed("Source domain not allowed")
    ELSE IF raw.confidence < getRuntimeConfig.confidence_min
    THEN ValidationFailed(ConfidenceReason)
    ELSE [ok |-> TRUE, data |-> Some(raw), reason |-> Undefined]

validateRegulationItem(raw) ==
    IF ~RegulationItemSchemaOk(raw) THEN ValidationFailed("Schema validation failed")
    ELSE IF ~isAllowedDomain(raw.url) THEN ValidationFailed("Source domain not allowed")
    ELSE IF Len(raw.evidence.citations) = 0
    THEN ValidationFailed("Missing evidence citations")
    ELSE IF raw.confidence < getRuntimeConfig.confidence_min
    THEN ValidationFailed(ConfidenceReason)
    ELSE [ok |-> TRUE, data |-> Some(raw), reason |-> Undefined]

PRIORITIES == {"P0", "P1", "P2"}

\* a radar-table entry is [id, requirementFamily, priority]
\* RequirementSchema.safeParse(raw).success: requirementFamily
\* z.string().min(1), priority an enum
RequirementSchemaOk(raw) == raw.requirementFamily # "" /\ raw.priority \in PRIORITIES

validateRequirement(raw) ==
    IF RequirementSchemaOk(raw)
    THEN [ok |-> TRUE, data |-> Some(raw), reason |-> Undefined]
    ELSE ValidationFailed("Requirement schema validation failed")

(***************************************************************************)
(* Repository (repository.ts).  A table is the sequence of its rows in     *)
(* the order they were inserted; uuidv4() hands out nextId + 1.            *)
(***************************************************************************)
HasRow(table, id) == \E i \in 1..Len(table) : table[i].id = id
RowOf(table, id) == table[CHOOSE i \in 1..Len(table) : table[i].id = id]

\* INSERT ... ON CONFLICT (id) DO NOTHING, document by document
RECURSIVE insertSourceDocuments(_, _)
insertSourceDocuments(table, documents) ==
    IF documents = <<>> THEN table
    ELSE insertSourceDocuments(
            IF HasRow(table, Head(documents).id) THEN table
            ELSE Append(table, Head(documents)),
            Tail(documents))

\* INSERT ... ON CONFLICT (id) DO UPDATE SET every column but id and created_at
upsertRegulationItem(table, item) ==
    IF HasRow(table, item.id)
    THEN [i \in 1..Len(table) |-> IF table[i].id = item.id THEN item ELSE table[i]]
    ELSE Append(table, item)

\* plain INSERT of a row with a fresh id
insertReviewQueueItem(table, item) == Append(table, item)

\* INSERT with the id of the entry, or a fresh one, given as id
insertRequirement(table, requirement, id) ==
    Append(table, [id |-> id, requirement_family |-> requirement.requirementFamily,
                   priority |-> requirement.priority])

Link(fromType, fromId, toType, toId, relation) ==
    [from_type |-> fromType, from_id |-> fromId, to_type |-> toType, to_id |-> toId,
     relation |-> relation]

\* INSERT ... ON CONFLICT DO NOTHING on links_unique_idx
insertLink(table, link) ==
    IF \E i \in 1..Len(table) : table[i] = link THEN table ELSE Append(table, link)

RECURSIVE insertLinks(_, _)
insertLinks(table, ls) ==
    IF ls = <<>> THEN table
    ELSE insertLinks(insertLink(table, Head(ls)), Tail(ls))

(***************************************************************************)
(* Scan (connectors/globalautoregs.ts fetchDocument, services/scan.ts      *)
(* runScan and extractRegulationItem, jobs/scan.ts).  What the network     *)
(* and the language model answer is an input of the job: a discovered      *)
(* page is [url, title, profile_id, file, fetched, llm], file the primary  *)
(* file link of the detail page if it has one, fetched what fetchBuffer    *)
(* does for it, llm the confidence the model's answer carries (None: the   *)
(* extraction throws).                                                     *)
(***************************************************************************)
\* fetchDocument: the download of the page's file, then the candidate
\* [files, index, candidate]
fetchDocument(dir, index, cooldown, t, page) ==
    IF page.file = None
    THEN [files |-> dir, index |-> index,
          candidate |-> [url |-> page.url, title |-> page.title,
                         profile_id |-> page.profile_id, stored_files |-> <<>>,
                         llm |-> page.llm]]
    ELSE LET out == downloadStoreAndExtract(dir, index, cooldown, t, page.file[1],
                                            page.fetched, FALSE)
         IN [files |-> out.files, index |-> out.index,
             candidate |-> [url |-> page.url, title |-> page.title,
                            profile_id |-> page.profile_id,
                            stored_files |-> <<out.result>>,
                            llm |-> page.llm]]

\* the connectors' pass over the discovered pages: [files, index, candidates]
RECURSIVE Discover(_, _, _, _, _)
Discover(dir, index, cooldown, t, pages) ==
    IF pages = <<>> THEN [files |-> dir, index |-> index, candidates |-> <<>>]
    ELSE LET first == fetchDocument(dir, index, cooldown, t, Head(pages))
             rest == Discover(first.files, first.index, cooldown, t, Tail(pages))
         IN [files |-> rest.files, index |-> rest.index,
             candidates |-> <<first.candidate>> \o rest.candidates]

\* dedupeByUrl: the first candidate of every URL
RECURSIVE dedupeByUrl(_)
dedupeByUrl(items) ==
    IF items = <<>> THEN <<>>
    ELSE LET init == dedupeByUrl(SubSeq(items, 1, Len(items) - 1))
             last == items[Len(items)]
         IN IF \E i \in 1..Len(init) : init[i].url = last.url THEN init
            ELSE Append(init, last)

\* profileById.get(profile_id): index of the profile, 0 when there is none
ProfileById(policy, profile_id) ==
    IF \E i \in 1..Len(policy.profiles) : policy.profiles[i].id = profile_id
    THEN CHOOSE i \in 1..Len(policy.profiles) : policy.profiles[i].id = profile_id
    ELSE 0

\* the evaluation runScan uses for a candidate (services/scan.ts 222-232)
EvaluateCandidate(result, policy) ==
    LET pi == IF result.profile_id = Undefined THEN 0
              ELSE ProfileById(policy, result.profile_id)
    IN IF pi # 0
       THEN LET profile == policy.profiles[pi]
            IN [threw |-> FALSE,
                tier |-> profile.tier,
                stage |-> profile.stage,
                profile_id |-> profile.id,
                requires_review |-> profile.requires_review,
                route |-> IF profile.tier = TIER_A /\ ~profile.requires_review
                          THEN "main" ELSE "review_queue",
                canonical_url |-> canonicalizeUrl(result.url, policy)]
       ELSE evaluateSource(result.url, policy)

\* safeDomain(url)
safeDomain(url) == IF url.valid THEN ReplaceFirst(url.host, "www.") ELSE <<"unknown">>

\* the item extractRegulationItem returns when the model answered
extractRegulationItem(result, jurisdiction, sourceDocumentId, trustTier, id) ==
    [id |-> id,
     jurisdiction |-> jurisdiction,
     title |-> result.title,
     url |-> result.url,
     evidence |-> [citations |-> << [title |-> result.title, url |-> result.url] >>],
     confidence |-> IF result.llm[1] < 0 THEN 0
                    ELSE IF result.llm[1] > 100 THEN 100 ELSE result.llm[1],
     source_document_id |-> Some(sourceDocumentId),
     trust_tier |-> trustTier]

\* the loop of runScan over the selected candidates, from the identifier
\* counter next: [documents, items, errors, next]
RECURSIVE ScanLoop(_, _, _, _)
ScanLoop(selected, jurisdiction, policy, next) ==
    IF selected = <<>>
    THEN [documents |-> <<>>, items |-> <<>>, errors |-> 0, next |-> next]
    ELSE LET result == Head(selected)
             docId == next + 1
             canonicalUrl == canonicalizeUrl(result.url, policy)
             evaluated == EvaluateCandidate(result, policy)
             doc == [id |-> docId, url |-> canonicalUrl,
                     domain |-> safeDomain(canonicalUrl), title |-> result.title,
                     meta |-> [trust_tier |-> evaluated.tier,
                               source_profile_id |->
                                   IF evaluated.profile_id # Undefined
                                   THEN evaluated.profile_id ELSE result.profile_id,
                               stored_files |-> result.stored_files]]
             threw == result.llm = None
             item == extractRegulationItem(result, jurisdiction, docId,
                                           evaluated.tier, docId + 1)
             rest == ScanLoop(Tail(selected), jurisdiction, policy,
                              IF threw THEN docId ELSE docId + 1)
         IN [documents |-> <<doc>> \o rest.documents,
             items |-> IF threw THEN rest.items ELSE <<item>> \o rest.items,
             errors |-> IF threw THEN rest.errors + 1 ELSE rest.errors,
             next |-> rest.next]

\* runScan on the candidates the connectors and the search returned, cut
\* to generalLimit: [discovered, documents, items, errors, next]
runScan(candidates, jurisdiction, policy, generalLimit, next) ==
    LET filtered == dedupeByUrl(candidates)
        selected == SubSeq(filtered, 1, IF Len(filtered) < generalLimit
                                         THEN Len(filtered) ELSE generalLimit)
        out == ScanLoop(selected, jurisdiction, policy, next)
    IN [discovered |-> Len(filtered), documents |-> out.documents,
        items |-> out.items, errors |-> out.errors, next |-> out.next]

\* mutant: every tier counts as binding
isHardLawAnyTier(tier) == tier \in TRUST_TIERS

\* const isHardLaw = tier === "TIER_A_BINDING"
isHardLaw(tier) == tier = TIER_A

\* reasonParts.join(" | ")
RECURSIVE Join(_)
Join(parts) ==
    IF parts = <<>> THEN ""
    ELSE IF Len(parts) = 1 THEN parts[1]
    ELSE parts[1] \o " | " \o Join(Tail(parts))

\* the review entry both jobs build for an item they do not upsert; fallback
\* is the text used when the validation gives no reason
QueueItem(id, validation, item, tier, fallback) ==
    LET reasonParts ==
            (IF ~validation.ok
             THEN <<IF validation.reason # Undefined THEN validation.reason ELSE fallback>>
             ELSE <<>>)
            \o (IF ~isHardLaw(tier)
                THEN <<"Trust tier " \o (IF tier # Undefined THEN tier ELSE "unknown")
                       \o " requires review">>
                ELSE <<>>)
    IN [id |-> id,
        entity_type |-> "RegulationItem",
        payload |-> IF validation.data # None THEN validation.data[1] ELSE item,
        reason |-> IF Join(reasonParts) # "" THEN Join(reasonParts) ELSE fallback,
        status |-> "pending"]

\* the loop of processScanJob over result.items (jobs/scan.ts 50-74);
\* st is [regulation_items, review_queue, accepted, reviewQueue, next]
RECURSIVE ScanItems(_, _)
ScanItems(items, st) ==
    IF items = <<>> THEN st
    ELSE LET item == Head(items)
             validation == validateRegulationItem(item)
             tier == IF validation.data # None /\ validation.data[1].trust_tier # Undefined
                     THEN validation.data[1].trust_tier ELSE item.trust_tier
         IN IF validation.ok /\ validation.data # None /\ isHardLaw(tier)
            THEN ScanItems(Tail(items),
                    [st EXCEPT !.regulation_items =
                                   upsertRegulationItem(@, validation.data[1]),
                               !.accepted = Append(@, validation.data[1])])
            ELSE LET queueItem == QueueItem(st.next + 1, validation, item, tier,
                                            "Schema validation failed")
                 IN ScanItems(Tail(items),
                       [st EXCEPT !.review_queue = insertReviewQueueItem(@, queueItem),
                                  !.reviewQueue = Append(@, queueItem),
                                  !.next = @ + 1])

RECURSIVE DocumentLinks(_, _)
DocumentLinks(runId, documents) ==
    IF documents = <<>> THEN <<>>
    ELSE <<Link("Run", runId, "SourceDocument", Head(documents).id, "produced")>>
         \o DocumentLinks(runId, Tail(documents))

\* the links of the upserted items, for buildScanLinks and buildMergeLinks
RECURSIVE ItemLinks(_, _)
ItemLinks(runId, items) ==
    IF items = <<>> THEN <<>>
    ELSE LET item == Head(items)
         IN <<Link("Run", runId, "RegulationItem", item.id, "produced")>>
            \o (IF item.source_document_id # None
                THEN <<Link("SourceDocument", item.source_document_id[1],
                            "RegulationItem", item.id, "extracted_from")>>
                ELSE <<>>)
            \o ItemLinks(runId, Tail(items))

RECURSIVE QueuedLinks(_, _)
QueuedLinks(runId, reviewQueue) ==
    IF reviewQueue = <<>> THEN <<>>
    ELSE LET payload == Head(reviewQueue).payload
         IN <<Link("Run", runId, "RegulationItem", payload.id, "queued_for_review")>>
            \o (IF payload.source_document_id # None
                THEN <<Link("SourceDocument", payload.source_document_id[1],
                            "RegulationItem", payload.id, "extracted_from")>>
                ELSE <<>>)
            \o QueuedLinks(runId, Tail(reviewQueue))

buildScanLinks(runId, documents, items, reviewQueue) ==
    DocumentLinks(runId, documents) \o ItemLinks(runId, items)
    \o QueuedLinks(runId, reviewQueue)

SetRunStatus(table, runId, status, meta) ==
    [i \in 1..Len(table) |->
        IF table[i].id = runId THEN [table[i] EXCEPT !.status = status, !.meta = meta]
        ELSE table[i]]

(***************************************************************************)
(* Merge (jobs/merge.ts, services/merge.ts runMerge).  What the language   *)
(* model answers is an input of the job.                                   *)
(***************************************************************************)
\* rows.map(fn) of SELECT ... ORDER BY created_at DESC
Reverse(s) == [i \in 1..Len(s) |-> s[Len(s) + 1 - i]]

\* the first n rows (LIMIT n)
Limit(s, n) == SubSeq(s, 1, IF Len(s) < n THEN Len(s) ELSE n)

TierRank(tier) ==
    CASE tier = TIER_A -> 4
      [] tier = TIER_B -> 3
      [] tier = TIER_C -> 2
      [] tier = TIER_D -> 1
      [] OTHER -> 0

\* the loop of pickHighestTier, best and bestRank so far
RECURSIVE PickTier(_, _, _)
PickTier(items, best, bestRank) ==
    IF items = <<>> THEN best
    ELSE LET tier == Head(items).trust_tier
         IN IF tier # Undefined /\ TierRank(tier) > bestRank
            THEN PickTier(Tail(items), tier, TierRank(tier))
            ELSE PickTier(Tail(items), best, bestRank)

pickHighestTier(items) == PickTier(items, Undefined, 0)

\* runMerge, given what the model answered (parsed): a merged item without
\* evidence gets one with no citations, a radar-table entry that does not
\* parse is dropped
runMerge(parsed) ==
    [mergedItems |->
        [i \in 1..Len(parsed.mergedItems) |->
            [parsed.mergedItems[i] EXCEPT
                !.evidence = IF @ = None THEN [citations |-> <<>>] ELSE @[1]]],
     radarTable |-> SelectSeq(parsed.radarTable, RequirementSchemaOk)]

\* the loop of processMergeJob over merge.mergedItems (jobs/merge.ts 35-65);
\* st is [regulation_items, review_queue, accepted, reviewQueue, next]
RECURSIVE MergeItems(_, _, _)
MergeItems(items, inferredTier, st) ==
    IF items = <<>> THEN st
    ELSE LET item == IF Head(items).trust_tier = Undefined /\ inferredTier # Undefined
                     THEN [Head(items) EXCEPT !.trust_tier = inferredTier]
                     ELSE Head(items)
             validation == validateRegulationItem(item)
             tier == IF validation.data # None /\ validation.data[1].trust_tier # Undefined
                     THEN validation.data[1].trust_tier ELSE item.trust_tier
         IN IF validation.ok /\ validation.data # None /\ isHardLaw(tier)
            THEN MergeItems(Tail(items), inferredTier,
                    [st EXCEPT !.regulation_items =
                                   upsertRegulationItem(@, validation.data[1]),
                               !.accepted = Append(@, validation.data[1])])
            ELSE LET queueItem == QueueItem(st.next + 1, validation, item, tier,
                                            "Invalid merge output")
                 IN MergeItems(Tail(items), inferredTier,
                       [st EXCEPT !.review_queue = insertReviewQueueItem(@, queueItem),
                                  !.reviewQueue = Append(@, queueItem),
                                  !.next = @ + 1])

\* the loop over merge.radarTable (jobs/merge.ts 71-81);
\* st is [requirements, requirementIds, next]
RECURSIVE MergeRequirements(_, _, _)
MergeRequirements(radarTable, allowRequirements, st) ==
    IF radarTable = <<>> THEN st
    ELSE LET validation == validateRequirement(Head(radarTable))
         IN IF ~validation.ok \/ validation.data = None
            THEN MergeRequirements(Tail(radarTable), allowRequirements, st)
            ELSE IF allowRequirements
            THEN LET data == validation.data[1]
                     reqId == IF data.id # None THEN data.id[1] ELSE st.next + 1
                 IN MergeRequirements(Tail(radarTable), allowRequirements,
                       [requirements |-> insertRequirement(st.requirements, data, reqId),
                        requirementIds |-> Append(st.requirementIds, reqId),
                        next |-> IF data.id # None THEN st.next ELSE st.next + 1])
            ELSE MergeRequirements(Tail(radarTable), allowRequirements, st)

RECURSIVE RequirementLinks(_, _)
RequirementLinks(runId, requirementIds) ==
    IF requirementIds = <<>> THEN <<>>
    ELSE <<Link("Run", runId, "Requirement", Head(requirementIds), "produced")>>
         \o RequirementLinks(runId, Tail(requirementIds))

RECURSIVE MappedTo(_, _)
MappedTo(reqId, sourceItems) ==
    IF sourceItems = <<>> THEN <<>>
    ELSE <<Link("RegulationItem", Head(sourceItems).id, "Requirement", reqId, "mapped_to")>>
         \o MappedTo(reqId, Tail(sourceItems))

RECURSIVE MappedToAll(_, _)
MappedToAll(requirementIds, sourceItems) ==
    IF requirementIds = <<>> THEN <<>>
    ELSE MappedTo(Head(requirementIds), sourceItems)
         \o MappedToAll(Tail(requirementIds), sourceItems)

buildMergeLinks(runId, items, requirementIds, sourceItems) ==
    ItemLinks(runId, items) \o RequirementLinks(runId, requirementIds)
    \o MappedToAll(requirementIds, sourceItems)

(***************************************************************************)
(* Review queue routes (index.ts).                                         *)
(***************************************************************************)
\* normalizeRegulationPayload of a payload that has an id, a url and a title
normalizeRegulationPayload(payload) ==
    [payload EXCEPT
        !.jurisdiction = IF @ \in JURISDICTIONS THEN @ ELSE "EU",
        !.trust_tier = IF @ \in TRUST_TIERS THEN @ ELSE Undefined,
        !.title = IF @ # "" THEN @ ELSE "Untitled",
        !.confidence = IF @ < 0 THEN 0 ELSE IF @ > 100 THEN 100 ELSE @]

(***************************************************************************)
(* Lineage graph (lineage.ts).  A Map is the sequence of its entries in    *)
(* insertion order, each entry a record with the key in the field id.  A   *)
(* node id is [prefix, id]; the id part is a row identifier or a hash, and *)
(* the hash of a string is modelled by the string itself, so that hashKey  *)
(* is collision-free.                                                      *)
(***************************************************************************)
MapHas(m, id) == \E i \in 1..Len(m) : m[i].id = id
MapGet(m, id) == m[CHOOSE i \in 1..Len(m) : m[i].id = id]
\* m.set(v.id, v): an existing key keeps its place
MapSet(m, v) ==
    IF MapHas(m, v.id)
    THEN [i \in 1..Len(m) |-> IF m[i].id = v.id THEN v ELSE m[i]]
    ELSE Append(m, v)

\* mutant: the edges are collected in a list, not in a Map keyed by id
EdgeSetNoKey(m, v) == Append(m, v)

\* edges.set(id, edge)
EdgeSet(m, v) == MapSet(m, v)

\* typePrefix[type] || type.toLowerCase()
TypePrefix(type) ==
    CASE type = "Run" -> "run"
      [] type = "SourceDocument" -> "doc"
      [] type = "RegulationItem" -> "item"
      [] type = "Requirement" -> "req"
      [] type = "Evidence" -> "evidence"
      [] type = "ReviewQueueItem" -> "reviewqueueitem"
      [] OTHER -> type

\* a row identifier and a digest as the id part of a node id
RowId(id) == [row |-> Some(id), hash |-> None]
hashKey(value) == [row |-> None, hash |-> Some(value)]

nodeId(prefix, id) == [prefix |-> prefix, id |-> id]

\* mutant: the query string is dropped as well
normalizeUrlNoSearch(url) ==
    IF url.valid
    THEN [valid |-> TRUE,
          host |-> ToLowerCase(url.host),
          path |-> ToLowerCase(IF EndsWith(url.path, <<"/">>)
                               THEN SubSeq(url.path, 1, Len(url.path) - 1)
                               ELSE url.path),
          search |-> <<>>]
    ELSE url

\* origin + pathname without one trailing slash + search, in lower case;
\* the string itself, trimmed and in lower case, when it does not parse
normalizeUrl(url) ==
    IF url.valid
    THEN [valid |-> TRUE,
          host |-> ToLowerCase(url.host),
          path |-> ToLowerCase(IF EndsWith(url.path, <<"/">>)
                               THEN SubSeq(url.path, 1, Len(url.path) - 1)
                               ELSE url.path),
          search |-> [i \in 1..Len(url.search) |->
                         <<ToLowerCase(url.search[i][1]), url.search[i][2]>>]]
    ELSE url

\* a metadata object is a function from its keys to optional values
\* (None: undefined, null or the empty string)
Meta1(k1, v1) == [k \in {k1} |-> v1]
Meta2(k1, v1, k2, v2) == [k \in {k1, k2} |-> IF k = k1 THEN v1 ELSE v2]
Meta3(k1, v1, k2, v2, k3, v3) ==
    [k \in {k1, k2, k3} |-> IF k = k1 THEN v1 ELSE IF k = k2 THEN v2 ELSE v3]

\* an optional string field of a row as a metadata value
Opt(s) == IF s = Undefined \/ s = "" THEN None ELSE Some(s)

\* mutant: a value already there is kept
mergeMetaKeepFirst(prev, next) ==
    LET p == IF prev = None THEN <<>> ELSE prev[1]
        keys == DOMAIN p \cup {k \in DOMAIN next : next[k] # None}
        merged == [k \in keys |->
                      IF k \in DOMAIN p /\ p[k] # None THEN p[k]
                      ELSE IF k \in DOMAIN next THEN next[k] ELSE p[k]]
    IN IF keys # {} THEN Some(merged) ELSE None

\* {...prev} with every non-empty value of next written over it
mergeMeta(prev, next) ==
    LET p == IF prev = None THEN <<>> ELSE prev[1]
        keys == DOMAIN p \cup {k \in DOMAIN next : next[k] # None}
        merged == [k \in keys |->
                      IF k \in DOMAIN next /\ next[k] # None THEN next[k] ELSE p[k]]
    IN IF keys # {} THEN Some(merged) ELSE None

\* label.trim() for the labels used here
Trim(label) == IF label = " " THEN "" ELSE label

\* mutant: every non-empty incoming label replaces the existing one
shouldReplaceLabelAlways(existing, incoming, type) == incoming # ""

shouldReplaceLabel(existing, incoming, type) ==
    IF incoming = "" THEN FALSE
    ELSE Trim(existing) = "" \/ Trim(existing) = type

\* upsertNode on the maps nodes and nodeKeyToId: [nodes, nodeKeyToId, id]
upsertNode(nodes, nodeKeyToId, type, canonicalKey, label, meta) ==
    LET key == [type |-> type, canonicalKey |-> canonicalKey]
    IN IF MapHas(nodeKeyToId, key)
       THEN LET existingId == MapGet(nodeKeyToId, key).node
            IN [nodes |->
                    IF MapHas(nodes, existingId)
                    THEN LET existing == MapGet(nodes, existingId)
                         IN MapSet(nodes,
                               [existing EXCEPT
                                   !.meta = mergeMeta(existing.meta, meta),
                                   !.label = IF shouldReplaceLabel(existing.label, label, type)
                                             THEN label ELSE @])
                    ELSE nodes,
                nodeKeyToId |-> nodeKeyToId,
                id |-> existingId]
       ELSE LET id == nodeId(TypePrefix(type), hashKey(key))
            IN [nodes |-> MapSet(nodes, [id |-> id, label |-> label, type |-> type,
                                          meta |-> Some(meta)]),
                nodeKeyToId |-> MapSet(nodeKeyToId, [id |-> key, node |-> id]),
                id |-> id]

\* map.get(id) || nodeId(prefix, id)
Resolve(map, id, prefix) ==
    IF MapHas(map, id) THEN MapGet(map, id).node ELSE nodeId(prefix, RowId(id))

\* the builder's maps; g is [nodes, edges, nodeKeyToId, runIdToNodeId,
\* sourceDocIdToNodeId, itemIdToNodeId, requirementIdToNodeId]
resolveNodeId(type, id, g, prefix) ==
    IF type = "Run" THEN Resolve(g.runIdToNodeId, id, prefix)
    ELSE IF type = "SourceDocument" THEN Resolve(g.sourceDocIdToNodeId, id, prefix)
    ELSE IF type = "RegulationItem" THEN Resolve(g.itemIdToNodeId, id, prefix)
    ELSE IF type = "Requirement" THEN Resolve(g.requirementIdToNodeId, id, prefix)
    ELSE nodeId(prefix, RowId(id))

\* a canonical key that is no URL
TextKey(s) == [valid |-> FALSE, text |-> s]

\* a || b on strings
OrElse(a, b) == IF a # "" /\ a # Undefined THEN a ELSE b

\* run_type.toUpperCase()
RunLabel(run_type) ==
    CASE run_type = "scan" -> "SCAN"
      [] run_type = "merge" -> "MERGE"
      [] OTHER -> run_type

RECURSIVE RunNodes(_, _)
RunNodes(rows, g) ==
    IF rows = <<>> THEN g
    ELSE LET run == Head(rows)
             id == nodeId("run", RowId(run.id))
         IN RunNodes(Tail(rows),
               [g EXCEPT
                   !.nodes = MapSet(@, [id |-> id, label |-> RunLabel(run.run_type),
                                        type |-> "Run",
                                        meta |-> Some(Meta1("status", Opt(run.status)))]),
                   !.runIdToNodeId = MapSet(@, [id |-> run.id, node |-> id])])

RECURSIVE DocNodes(_, _)
DocNodes(rows, g) ==
    IF rows = <<>> THEN g
    ELSE LET doc == Head(rows)
             up == upsertNode(g.nodes, g.nodeKeyToId, "SourceDocument",
                              normalizeUrl(doc.url), OrElse(doc.title, "SourceDocument"),
                              Meta2("url", Some(doc.url), "domain", Some(doc.domain)))
         IN DocNodes(Tail(rows),
               [g EXCEPT !.nodes = up.nodes, !.nodeKeyToId = up.nodeKeyToId,
                         !.sourceDocIdToNodeId = MapSet(@, [id |-> doc.id, node |-> up.id])])

RECURSIVE ItemNodes(_, _)
ItemNodes(rows, g) ==
    IF rows = <<>> THEN g
    ELSE LET item == Head(rows)
             up == upsertNode(g.nodes, g.nodeKeyToId, "RegulationItem",
                              normalizeUrl(item.url), OrElse(item.title, "RegulationItem"),
                              Meta2("jurisdiction", Opt(item.jurisdiction),
                                    "trust_tier", Opt(item.trust_tier)))
         IN ItemNodes(Tail(rows),
               [g EXCEPT !.nodes = up.nodes, !.nodeKeyToId = up.nodeKeyToId,
                         !.itemIdToNodeId = MapSet(@, [id |-> item.id, node |-> up.id])])

RECURSIVE ReviewNodes(_, _)
ReviewNodes(rows, g) ==
    IF rows = <<>> THEN g
    ELSE LET row == Head(rows)
             payload == row.payload
             up == upsertNode(g.nodes, g.nodeKeyToId, "RegulationItem",
                              normalizeUrl(payload.url),
                              OrElse(payload.title, "RegulationItem"),
                              Meta3("jurisdiction", Opt(payload.jurisdiction),
                                    "trust_tier", Opt(payload.trust_tier),
                                    "review_status", Opt(row.status)))
         IN IF row.entity_type # "RegulationItem" THEN ReviewNodes(Tail(rows), g)
            ELSE ReviewNodes(Tail(rows),
                   [g EXCEPT !.nodes = up.nodes, !.nodeKeyToId = up.nodeKeyToId,
                             !.itemIdToNodeId = MapSet(@, [id |-> payload.id, node |-> up.id])])

RECURSIVE RequirementNodes(_, _)
RequirementNodes(rows, g) ==
    IF rows = <<>> THEN g
    ELSE LET req == Head(rows)
             up == upsertNode(g.nodes, g.nodeKeyToId, "Requirement",
                              TextKey(req.requirement_family),
                              OrElse(req.requirement_family, "Requirement"),
                              Meta1("priority", Opt(req.priority)))
         IN RequirementNodes(Tail(rows),
               [g EXCEPT !.nodes = up.nodes, !.nodeKeyToId = up.nodeKeyToId,
                         !.requirementIdToNodeId = MapSet(@, [id |-> req.id, node |-> up.id])])

Edge(source, relation, target) ==
    [id |-> [source |-> source, relation |-> relation, target |-> target],
     source |-> source, target |-> target, relation |-> relation]

\* a node made for a link end that no row gave
Placeholder(nodes, id, type) ==
    IF MapHas(nodes, id) THEN nodes
    ELSE MapSet(nodes, [id |-> id, label |-> type, type |-> type, meta |-> None])

RECURSIVE LinkEdges(_, _)
LinkEdges(rows, g) ==
    IF rows = <<>> THEN g
    ELSE LET link == Head(rows)
             source == resolveNodeId(link.from_type, link.from_id, g,
                                     TypePrefix(link.from_type))
             target == resolveNodeId(link.to_type, link.to_id, g,
                                     TypePrefix(link.to_type))
         IN LinkEdges(Tail(rows),
               [g EXCEPT
                   !.nodes = Placeholder(Placeholder(@, source, link.from_type),
                                         target, link.to_type),
                   !.edges = EdgeSet(@, Edge(source, link.relation, target))])

\* item.evidence.citations.forEach, from the citation at index i on
RECURSIVE CitationEdges(_, _, _)
CitationEdges(item, i, g) ==
    IF i > Len(item.evidence.citations) THEN g
    ELSE LET citation == item.evidence.citations[i]
             up == upsertNode(g.nodes, g.nodeKeyToId, "Evidence",
                              normalizeUrl(citation.url), OrElse(citation.title, "Evidence"),
                              Meta1("url", Some(citation.url)))
             source == Resolve(g.itemIdToNodeId, item.id, "item")
         IN CitationEdges(item, i + 1,
               [g EXCEPT !.nodes = up.nodes, !.nodeKeyToId = up.nodeKeyToId,
                         !.edges = EdgeSet(@, Edge(source, "supported_by", up.id))])

RECURSIVE ItemEdges(_, _)
ItemEdges(items, g) ==
    IF items = <<>> THEN g
    ELSE LET item == Head(items)
             g1 == IF item.source_document_id # None
                   THEN [g EXCEPT !.edges = EdgeSet(@,
                            Edge(Resolve(g.sourceDocIdToNodeId, item.source_document_id[1], "doc"),
                                 "extracted_from",
                                 Resolve(g.itemIdToNodeId, item.id, "item")))]
                   ELSE g
         IN ItemEdges(Tail(items), CitationEdges(item, 1, g1))

RunRowLimit == 50
RowLimit == 200

\* buildLineageGraph over the tables read: [nodes, edges]
buildLineageGraphOf(reads, runLimit, rowLimit) ==
    LET g0 == [nodes |-> <<>>, edges |-> <<>>, nodeKeyToId |-> <<>>,
               runIdToNodeId |-> <<>>, sourceDocIdToNodeId |-> <<>>,
               itemIdToNodeId |-> <<>>, requirementIdToNodeId |-> <<>>]
        items == Limit(Reverse(reads.regulation_items), rowLimit)
        g1 == RunNodes(Limit(Reverse(reads.runs), runLimit), g0)
        g2 == DocNodes(Limit(Reverse(reads.source_documents), rowLimit), g1)
        g3 == ItemNodes(items, g2)
        g4 == ReviewNodes(Limit(Reverse(reads.review_queue), rowLimit), g3)
        g5 == RequirementNodes(Limit(Reverse(reads.requirements), rowLimit), g4)
        g6 == LinkEdges(reads.links, g5)
        g7 == ItemEdges(items, g6)
    IN [nodes |-> g7.nodes, edges |-> g7.edges]

\* the graph of GET /api/lineage: LIMIT 50 on runs, LIMIT 200 on the other tables
buildLineageGraph(reads) == buildLineageGraphOf(reads, RunRowLimit, RowLimit)

(***************************************************************************)
(* upsertNode called again and again on the maps of one graph.             *)
(***************************************************************************)
MaxUpserts == 2

UpsertTypes == {"Evidence", "RegulationItem"}
UpsertLabels == {"", " ", "Evidence", "T1", "T2"}
UpsertMetas ==
    { Meta1("url", v) : v \in {None, Some("a"), Some("b")} }
    \cup { Meta2("url", v, "domain", w) : v \in {None, Some("a")}, w \in {None, Some("d")} }

\* upsertNode(nodes, nodeKeyToId, type, "k", label, meta); last keeps the
\* arguments and the node of that key before and after the call
UpsertNode(type, label, meta) ==
    /\ upserts.count < MaxUpserts
    /\ LET key == [type |-> type, canonicalKey |-> TextKey("k")]
           before == IF MapHas(upserts.nodeKeyToId, key)
                     THEN Some(MapGet(upserts.nodes, MapGet(upserts.nodeKeyToId, key).node))
                     ELSE None
           up == upsertNode(upserts.nodes, upserts.nodeKeyToId, type, TextKey("k"),
                            label, meta)
       IN upserts' = [nodes |-> up.nodes, nodeKeyToId |-> up.nodeKeyToId,
                      count |-> upserts.count + 1,
                      last |-> Some([type |-> type, label |-> label, meta |-> meta,
                                     before |-> before,
                                     after |-> MapGet(up.nodes, up.id)])]

InitUpsert ==
    /\ PolicyIdle /\ StoreIdle /\ IndexIdle /\ DbIdle
    /\ calls = [c \in CallIds |-> [pc |-> "idle"]]
    /\ RateIdle /\ FetchIdle /\ SaveIdle /\ ConnIdle /\ StepIdle

NextUpsert ==
    \E type \in UpsertTypes, label \in UpsertLabels, meta \in UpsertMetas :
        /\ UpsertNode(type, label, meta)
        /\ UNCHANGED <<policyVars, storeVars, indexVars, dbVars, lastJob, lineage,
                       calls, rateVars, fetchVars, saveVars, connVars, decisions, served>>

SpecUpsert == InitUpsert /\ [][NextUpsert]_vars

\* the last upsertNode call found a node under its key
UpsertOnExisting == upserts.last # None /\ upserts.last[1].before # None

\* C26: upsertNode on an existing key replaces the label only when the
\* existing label is empty (or blank) or the type name and the incoming label
\* is not empty; in every other case the label stays as it was, so a label
\* that is neither is not overwritten, not even by the type name.
C26_LabelUpsertRule ==
    UpsertOnExisting =>
        LET call == upserts.last[1]
            old == call.before[1].label
            generic == Trim(old) = "" \/ Trim(old) = call.type
        IN /\ call.after.label \in {old, call.label}
           /\ call.after.label # old => generic /\ call.label # ""
           /\ ~generic => call.after.label = old
           /\ generic /\ call.label # "" => call.after.label = call.label

\* an Evidence node labelled T1 was upserted again with the label Evidence
\* and kept T1
C26_Witness ==
    /\ UpsertOnExisting
    /\ upserts.last[1].type = "Evidence"
    /\ upserts.last[1].before[1].label = "T1"
    /\ upserts.last[1].label = "Evidence"
    /\ upserts.last[1].after.label = "T1"

\* C27: upsertNode on an existing key only fills the gaps of the metadata: a
\* field that has a value keeps it, whatever the incoming object holds, and
\* an incoming value is stored only in a field that had none.
C27_MetaOnlyFillsGaps ==
    UpsertOnExisting =>
        LET call == upserts.last[1]
            prev == IF call.before[1].meta = None THEN <<>> ELSE call.before[1].meta[1]
            merged == IF call.after.meta = None THEN <<>> ELSE call.after.meta[1]
        IN \A k \in DOMAIN prev :
              prev[k] # None => k \in DOMAIN merged /\ merged[k] = prev[k]

(***************************************************************************)
(* The pipeline: runs are posted, the workers process them, a reviewer     *)
(* approves or rejects review entries, the lineage graph is requested.     *)
(* A job runs from start to end before the next step.  The policy file     *)
(* and the database stay readable.                                         *)
(***************************************************************************)
MaxRuns == 2
MaxCandidates == 1
MaxMerged == 1

\* max_results || 5
DefaultMaxResults == 5

UrlA == [valid |-> TRUE, host |-> DomA, path |-> <<"/", "d">>, search |-> <<>>]
UrlAVariant == [valid |-> TRUE, host |-> DomA, path |-> <<"/", "D", "/">>, search |-> <<>>]
UrlAUtm == [valid |-> TRUE, host |-> DomA, path |-> <<"/", "d">>,
            search |-> << <<<<"utm_", "s">>, "1">> >>]
UrlB == [valid |-> TRUE, host |-> DomB, path |-> <<"/", "d">>, search |-> <<>>]
UrlC == [valid |-> TRUE, host |-> <<"c">>, path |-> <<"/", "d">>, search |-> <<>>]

\* the pages a scan can discover and what the network and the model answer
Pages ==
    { [url |-> UrlA, title |-> "T1", profile_id |-> "p1",
       file |-> Some([url |-> "u1", ext |-> <<"pdf">>]), fetched |-> f, llm |-> c] :
          f \in {None, Some("x")}, c \in {None, Some(30), Some(90)} }
    \cup
    { [url |-> u, title |-> "T2", profile_id |-> Undefined,
       file |-> None, fetched |-> None, llm |-> c] :
          u \in {UrlAVariant, UrlAUtm, UrlB}, c \in {None, Some(30), Some(90)} }

ScanJurisdictions == {"EU", "US"}

Citation(url) == [title |-> "T3", url |-> url]

\* the shapes of the merged items the model can answer with; the evidence
\* is optional
MergeShapes ==
    { [url |-> UrlA, evidence |-> Some([citations |-> <<Citation(UrlA)>>]),
       trust_tier |-> TIER_A],
      [url |-> UrlA, evidence |-> Some([citations |-> <<Citation(UrlA)>>]),
       trust_tier |-> TIER_B],
      [url |-> UrlA, evidence |-> None, trust_tier |-> Undefined],
      [url |-> UrlC, evidence |-> Some([citations |-> <<Citation(UrlC)>>]),
       trust_tier |-> TIER_A],
      [url |-> InvalidUrl, evidence |-> Some([citations |-> <<Citation(UrlA)>>]),
       trust_tier |-> TIER_A],
      [url |-> UrlC, evidence |-> Some([citations |-> <<Citation(UrlA),
                                                         Citation(UrlAVariant)>>]),
       trust_tier |-> TIER_A] }

\* the merged items of an answer: the id of an item given to the model, or
\* 0, one the model made up
MergedItems(items, jurisdiction) ==
    { [id |-> id, jurisdiction |-> jurisdiction, title |-> "T3", url |-> shape.url,
       evidence |-> shape.evidence, confidence |-> 95, trust_tier |-> shape.trust_tier,
       source_document_id |-> None] :
          shape \in MergeShapes,
          id \in {0} \cup {items[i].id : i \in 1..Len(items)} }

RadarTables ==
    { <<>>,
      << [id |-> None, requirementFamily |-> "F1", priority |-> "P1"] >>,
      << [id |-> None, requirementFamily |-> "", priority |-> "P1"] >> }

Run(id, run_type, jurisdiction) ==
    [id |-> id, run_type |-> run_type, jurisdiction |-> jurisdiction,
     status |-> "queued", meta |-> None]

\* POST /api/runs/scan
PostRunsScan(jurisdiction) ==
    /\ Len(runs) < MaxRuns
    /\ runs' = Append(runs, Run(nextId + 1, "scan", jurisdiction))
    /\ lineage' = None
    /\ nextId' = nextId + 1
    /\ UNCHANGED <<source_documents, regulation_items, review_queue, requirements,
                   links, lastJob, policyVars, storeVars, indexVars>>

\* POST /api/runs/merge
PostRunsMerge(jurisdiction) ==
    /\ Len(runs) < MaxRuns
    /\ runs' = Append(runs, Run(nextId + 1, "merge", jurisdiction))
    /\ lineage' = None
    /\ nextId' = nextId + 1
    /\ UNCHANGED <<source_documents, regulation_items, review_queue, requirements,
                   links, lastJob, policyVars, storeVars, indexVars>>

Queued(r, run_type) ==
    /\ r \in 1..Len(runs)
    /\ runs[r].run_type = run_type
    /\ runs[r].status = "queued"

\* the end of processScanJob: the documents, the links and the run row are
\* written; found is what the connectors left, result what runScan returned,
\* st the tables and lists after the loop over result.items
ScanJobCompleted(run, policy, found, result, st) ==
    /\ cachedPolicy' = Some(policy)
    /\ files' = found.files
    /\ cachedIndex' = found.index
    /\ indexFile' = found.index
    /\ source_documents' = insertSourceDocuments(source_documents, result.documents)
    /\ regulation_items' = st.regulation_items
    /\ review_queue' = st.review_queue
    /\ links' = insertLinks(links, buildScanLinks(run.id, result.documents,
                                                  st.accepted, st.reviewQueue))
    /\ nextId' = st.next
    /\ runs' = SetRunStatus(runs, run.id, "completed",
                  Some([discovered |-> result.discovered, errors |-> result.errors,
                        accepted |-> Len(st.accepted),
                        review |-> Len(st.reviewQueue)]))
    /\ lastJob' = Some([run_id |-> run.id, items |-> result.items,
                        accepted |-> st.accepted, reviewQueue |-> st.reviewQueue])

\* processScanJob once runScan returned result: the loop over result.items
ScanJobItems(run, policy, found, result) ==
    ScanJobCompleted(run, policy, found, result,
        ScanItems(result.items,
            [regulation_items |-> regulation_items, review_queue |-> review_queue,
             accepted |-> <<>>, reviewQueue |-> <<>>, next |-> result.next]))

\* processScanJob once the connectors returned found: runScan on the candidates
ScanJobRun(run, policy, found) ==
    ScanJobItems(run, policy, found,
        runScan(found.candidates, run.jurisdiction, policy, DefaultMaxResults, nextId))

\* processScanJob on the run in row r, the connectors discovering pages
ProcessScanJob(r, pages) ==
    /\ Queued(r, "scan")
    /\ lineage' = None
    /\ ScanJobRun(runs[r], loadPolicy,
                  Discover(files, cachedIndex, CooldownMinutes(cooldownEnv), now, pages))
    /\ UNCHANGED <<policyFile, lastEval, storeLog, now, cooldownEnv, lastDl,
                   requirements>>

\* merge.mergedItems with the inferred tier filled in, as the loop sees them
RECURSIVE WithInferredTier(_, _)
WithInferredTier(items, inferredTier) ==
    IF items = <<>> THEN <<>>
    ELSE <<IF Head(items).trust_tier = Undefined /\ inferredTier # Undefined
           THEN [Head(items) EXCEPT !.trust_tier = inferredTier] ELSE Head(items)>>
         \o WithInferredTier(Tail(items), inferredTier)

\* the rows processMergeJob reads
ItemsOf(jurisdiction) ==
    Reverse(SelectSeq(regulation_items, LAMBDA item : item.jurisdiction = jurisdiction))

\* mutant: the catch rethrows without touching the run row
ScanJobFailedLeftRunning(run, policy, found, result, st) ==
    /\ cachedPolicy' = Some(policy)
    /\ files' = found.files
    /\ cachedIndex' = found.index
    /\ indexFile' = found.index
    /\ source_documents' = insertSourceDocuments(source_documents, result.documents)
    /\ regulation_items' = st.regulation_items
    /\ review_queue' = st.review_queue
    /\ nextId' = st.next
    /\ lastJob' = Some([run_id |-> run.id, items |-> result.items,
                        accepted |-> st.accepted, reviewQueue |-> st.reviewQueue])
    /\ UNCHANGED <<runs, links>>

\* the catch of processScanJob (jobs/scan.ts 95-104): the write of an item
\* threw after the loop had left st; the documents are in the table, the
\* links are not, the run row is set to failed
ScanJobFailed(run, policy, found, result, st) ==
    /\ cachedPolicy' = Some(policy)
    /\ files' = found.files
    /\ cachedIndex' = found.index
    /\ indexFile' = found.index
    /\ source_documents' = insertSourceDocuments(source_documents, result.documents)
    /\ regulation_items' = st.regulation_items
    /\ review_queue' = st.review_queue
    /\ nextId' = st.next
    /\ runs' = SetRunStatus(runs, run.id, "failed", Some([error |-> "write failed"]))
    /\ lastJob' = Some([run_id |-> run.id, items |-> result.items,
                        accepted |-> st.accepted, reviewQueue |-> st.reviewQueue])
    /\ UNCHANGED links

\* processScanJob once runScan returned result, the write of item number
\* fault throwing (0: no write throws)
ScanJobItemsUntil(run, policy, found, result, fault) ==
    IF fault = 0 THEN ScanJobItems(run, policy, found, result)
    ELSE /\ fault <= Len(result.items)
         /\ ScanJobFailed(run, policy, found, result,
               ScanItems(SubSeq(result.items, 1, fault - 1),
                   [regulation_items |-> regulation_items,
                    review_queue |-> review_queue,
                    accepted |-> <<>>, reviewQueue |-> <<>>, next |-> result.next]))

ScanJobRunUntil(run, policy, found, fault) ==
    ScanJobItemsUntil(run, policy, found,
        runScan(found.candidates, run.jurisdiction, policy, DefaultMaxResults, nextId),
        fault)

Running(r, run_type) ==
    /\ r \in 1..Len(runs)
    /\ runs[r].run_type = run_type
    /\ runs[r].status = "running"

\* the first statement of both handlers: UPDATE runs SET status = 'running'
SetRunning(r) ==
    /\ runs' = [runs EXCEPT ![r].status = "running"]
    /\ UNCHANGED <<source_documents, regulation_items, review_queue, requirements,
                   links, nextId, lastJob, lineage, policyVars, storeVars, indexVars>>

\* a scan worker takes the job of the run in row r
StartScanJob(r) == Queued(r, "scan") /\ SetRunning(r)

\* the rest of processScanJob for the run in row r, the connectors
\* discovering pages, the write of item number fault throwing
RunScanJob(r, pages, fault) ==
    /\ Running(r, "scan")
    /\ lineage' = None
    /\ ScanJobRunUntil(runs[r], loadPolicy,
          Discover(files, cachedIndex, CooldownMinutes(cooldownEnv), now, pages), fault)
    /\ UNCHANGED <<policyFile, lastEval, storeLog, now, cooldownEnv, lastDl,
                   requirements>>

\* processMergeJob after the run row is set to running (merge.ts 20-108),
\* the model answering parsed, the write of merged item number fault
\* throwing (0: no write throws)
MergeJobEnd(run, parsed, fault) ==
    LET items == ItemsOf(run.jurisdiction)
        merge == runMerge(parsed)
        inferredTier == pickHighestTier(items)
        st0 == [regulation_items |-> regulation_items, review_queue |-> review_queue,
                accepted |-> <<>>, reviewQueue |-> <<>>, next |-> nextId]
    IN IF fault = 0
       THEN LET st == MergeItems(merge.mergedItems, inferredTier, st0)
                rq == MergeRequirements(merge.radarTable, inferredTier = TIER_A,
                         [requirements |-> requirements, requirementIds |-> <<>>,
                          next |-> st.next])
            IN /\ regulation_items' = st.regulation_items
               /\ review_queue' = st.review_queue
               /\ requirements' = rq.requirements
               /\ links' = insertLinks(links, buildMergeLinks(run.id, st.accepted,
                                                              rq.requirementIds, items))
               /\ nextId' = rq.next
               /\ runs' = SetRunStatus(runs, run.id, "completed",
                             Some([merged |-> Len(st.accepted),
                                   radar |-> Len(rq.requirementIds),
                                   review |-> Len(st.reviewQueue)]))
               /\ lastJob' = Some([run_id |-> run.id,
                                   items |-> WithInferredTier(merge.mergedItems,
                                                              inferredTier),
                                   accepted |-> st.accepted,
                                   reviewQueue |-> st.reviewQueue,
                                   radarTable |-> merge.radarTable])
       ELSE LET st == MergeItems(SubSeq(merge.mergedItems, 1, fault - 1),
                                 inferredTier, st0)
            IN /\ fault <= Len(merge.mergedItems)
               /\ regulation_items' = st.regulation_items
               /\ review_queue' = st.review_queue
               /\ nextId' = st.next
               /\ runs' = SetRunStatus(runs, run.id, "failed",
                                       Some([error |-> "write failed"]))
               /\ lastJob' = Some([run_id |-> run.id,
                                   items |-> WithInferredTier(merge.mergedItems,
                                                              inferredTier),
                                   accepted |-> st.accepted,
                                   reviewQueue |-> st.reviewQueue,
                                   radarTable |-> merge.radarTable])
               /\ UNCHANGED <<requirements, links>>

\* processMergeJob on the run in row r, the model answering parsed
ProcessMergeJob(r, parsed) ==
    /\ Queued(r, "merge")
    /\ \A q \in 1..(r - 1) : ~Queued(q, "merge")
    /\ lineage' = None
    /\ MergeJobEnd(runs[r], parsed, 0)
    /\ UNCHANGED <<source_documents, policyVars, storeVars, indexVars>>

\* the merge worker, of concurrency 1, takes the oldest queued merge job
StartMergeJob(r) ==
    /\ Queued(r, "merge")
    /\ \A q \in 1..Len(runs) : ~Running(q, "merge")
    /\ \A q \in 1..(r - 1) : ~Queued(q, "merge")
    /\ SetRunning(r)

\* the rest of processMergeJob for the run in row r
RunMergeJob(r, parsed, fault) ==
    /\ Running(r, "merge")
    /\ lineage' = None
    /\ MergeJobEnd(runs[r], parsed, fault)
    /\ UNCHANGED <<source_documents, policyVars, storeVars, indexVars>>

SetReviewStatus(table, i, status) == [table EXCEPT ![i].status = status]

\* POST /api/review-queue/:id/approve for the entry in row i
Approve(i) ==
    /\ i \in 1..Len(review_queue)
    /\ LET item == review_queue[i]
           normalized == normalizeRegulationPayload(item.payload)
       IN /\ item.status = "pending"
          /\ item.entity_type = "RegulationItem" => RegulationItemSchemaOk(normalized)
          /\ IF item.entity_type = "RegulationItem"
             THEN /\ regulation_items' = upsertRegulationItem(regulation_items, normalized)
                  /\ links' = insertLink(
                        IF normalized.source_document_id # None
                        THEN insertLink(links, Link("SourceDocument",
                                 normalized.source_document_id[1], "RegulationItem",
                                 normalized.id, "extracted_from"))
                        ELSE links,
                        Link("ReviewQueueItem", item.id, "RegulationItem",
                             normalized.id, "approved_into_main"))
             ELSE UNCHANGED <<regulation_items, links>>
          /\ review_queue' = SetReviewStatus(review_queue, i, "approved")
    /\ lineage' = None
    /\ UNCHANGED <<runs, source_documents, requirements, nextId, lastJob,
                   policyVars, storeVars, indexVars>>

\* POST /api/review-queue/:id/reject for the entry in row i
Reject(i) ==
    /\ i \in 1..Len(review_queue)
    /\ review_queue' = SetReviewStatus(review_queue, i, "rejected")
    /\ lineage' = None
    /\ UNCHANGED <<runs, source_documents, regulation_items, requirements, links,
                   nextId, lastJob, policyVars, storeVars, indexVars>>

\* The approve route step by step: c is the request, i the row its SELECT
\* returned.  The SELECT and the checks: the request goes on only for a
\* pending entry whose payload parses
ApproveSelect(c, i) ==
    /\ decisions[c].pc = "idle"
    /\ i \in 1..Len(review_queue)
    /\ review_queue[i].status = "pending"
    /\ review_queue[i].entity_type = "RegulationItem" =>
          RegulationItemSchemaOk(normalizeRegulationPayload(review_queue[i].payload))
    /\ decisions' = [decisions EXCEPT ![c] = [pc |-> "upsert", item |-> Some(review_queue[i])]]
    /\ UNCHANGED <<dbVars, lastJob, lineage, policyVars, storeVars, indexVars>>

\* await upsertRegulationItem(parsed.data)
ApproveUpsert(c) ==
    /\ decisions[c].pc = "upsert"
    /\ LET item == decisions[c].item[1]
       IN IF item.entity_type = "RegulationItem"
          THEN regulation_items' = upsertRegulationItem(regulation_items,
                                      normalizeRegulationPayload(item.payload))
          ELSE UNCHANGED regulation_items
    /\ decisions' = [decisions EXCEPT ![c].pc = "links"]
    /\ lineage' = None
    /\ UNCHANGED <<runs, source_documents, review_queue, requirements, links, nextId,
                   lastJob, policyVars, storeVars, indexVars>>

\* the two insertLink calls
ApproveLinks(c) ==
    /\ decisions[c].pc = "links"
    /\ LET item == decisions[c].item[1]
           normalized == normalizeRegulationPayload(item.payload)
       IN IF item.entity_type = "RegulationItem"
          THEN links' = insertLink(
                  IF normalized.source_document_id # None
                  THEN insertLink(links, Link("SourceDocument",
                           normalized.source_document_id[1], "RegulationItem",
                           normalized.id, "extracted_from"))
                  ELSE links,
                  Link("ReviewQueueItem", item.id, "RegulationItem",
                       normalized.id, "approved_into_main"))
          ELSE UNCHANGED links
    /\ decisions' = [decisions EXCEPT ![c].pc = "update"]
    /\ lineage' = None
    /\ UNCHANGED <<runs, source_documents, regulation_items, review_queue, requirements,
                   nextId, lastJob, policyVars, storeVars, indexVars>>

\* UPDATE review_queue SET status = 'approved' WHERE id = $1
ApproveUpdate(c) ==
    /\ decisions[c].pc = "update"
    /\ review_queue' = [q \in 1..Len(review_queue) |->
                           IF review_queue[q].id = decisions[c].item[1].id
                           THEN [review_queue[q] EXCEPT !.status = "approved"]
                           ELSE review_queue[q]]
    /\ decisions' = [decisions EXCEPT ![c] = [pc |-> "idle", item |-> None]]
    /\ lineage' = None
    /\ UNCHANGED <<runs, source_documents, regulation_items, requirements, links,
                   nextId, lastJob, policyVars, storeVars, indexVars>>

\* the tables as buildLineageGraph reads them
Tables ==
    [runs |-> runs, source_documents |-> source_documents,
     regulation_items |-> regulation_items, review_queue |-> review_queue,
     requirements |-> requirements, links |-> links]

\* GET /api/lineage
GetLineage ==
    /\ lineage' = Some(buildLineageGraph(Tables))
    /\ UNCHANGED <<dbVars, lastJob, policyVars, storeVars, indexVars, auxVars>>

MergeAnswers(jurisdiction) ==
    [mergedItems : SeqsUpTo(MergedItems(ItemsOf(jurisdiction), jurisdiction), MaxMerged),
     radarTable : RadarTables]

InitPipeline == PolicyIdle /\ StoreIdle /\ IndexIdle /\ DbIdle /\ AuxIdle

NextPipeline ==
    \/ \E jurisdiction \in ScanJurisdictions : PostRunsScan(jurisdiction) /\ UNCHANGED auxVars
    \/ \E jurisdiction \in ScanJurisdictions : PostRunsMerge(jurisdiction) /\ UNCHANGED auxVars
    \/ \E r \in 1..Len(runs), pages \in SeqsUpTo(Pages, MaxCandidates) :
          ProcessScanJob(r, pages) /\ UNCHANGED auxVars
    \/ \E r \in 1..Len(runs) : \E parsed \in MergeAnswers(runs[r].jurisdiction) :
          ProcessMergeJob(r, parsed) /\ UNCHANGED auxVars
    \/ \E i \in 1..Len(review_queue) : Approve(i) /\ UNCHANGED auxVars
    \/ \E i \in 1..Len(review_queue) : Reject(i) /\ UNCHANGED auxVars

SpecPipeline == InitPipeline /\ [][NextPipeline]_vars

NextLineage == NextPipeline \/ GetLineage

SpecLineage == InitPipeline /\ [][NextLineage]_vars

(***************************************************************************)
(* The jobs step by step: a worker sets the run to running, then runs the  *)
(* rest of the handler; the write of one item may throw.  The updates of   *)
(* the run row itself succeed.                                             *)
(***************************************************************************)
MaxJobPages == 2

\* the pages the jobs discover here: one of each connector, the extraction
\* throwing or answering with confidence 0.9
JobPages ==
    { page \in Pages : /\ page.url \in {UrlA, UrlB}
                       /\ page.fetched = None
                       /\ page.llm # Some(30) }

NextJobs ==
    \/ \E jurisdiction \in ScanJurisdictions : PostRunsScan(jurisdiction) /\ UNCHANGED auxVars
    \/ \E jurisdiction \in ScanJurisdictions : PostRunsMerge(jurisdiction) /\ UNCHANGED auxVars
    \/ \E r \in 1..Len(runs) : StartScanJob(r) /\ UNCHANGED auxVars
    \/ \E r \in 1..Len(runs), pages \in SeqsUpTo(JobPages, MaxJobPages),
          fault \in 0..MaxJobPages :
          RunScanJob(r, pages, fault) /\ UNCHANGED auxVars
    \/ \E r \in 1..Len(runs) : StartMergeJob(r) /\ UNCHANGED auxVars
    \/ \E r \in 1..Len(runs) : \E parsed \in MergeAnswers(runs[r].jurisdiction),
          fault \in 0..MaxMerged :
          RunMergeJob(r, parsed, fault) /\ UNCHANGED auxVars

SpecJobs == InitPipeline /\ [][NextJobs]_vars

\* the workers take every queued job and run every handler to its end
SpecJobsFair ==
    /\ SpecJobs
    /\ WF_vars(\E r \in 1..Len(runs) : StartScanJob(r) /\ UNCHANGED auxVars)
    /\ WF_vars(\E r \in 1..Len(runs), pages \in SeqsUpTo(JobPages, MaxJobPages),
                  fault \in 0..MaxJobPages :
                  RunScanJob(r, pages, fault) /\ UNCHANGED auxVars)
    /\ WF_vars(\E r \in 1..Len(runs) : StartMergeJob(r) /\ UNCHANGED auxVars)
    /\ WF_vars(\E r \in 1..Len(runs) : \E parsed \in MergeAnswers(runs[r].jurisdiction),
                  fault \in 0..MaxMerged :
                  RunMergeJob(r, parsed, fault) /\ UNCHANGED auxVars)

(***************************************************************************)
(* The review decisions: scan jobs fill the review queue, approve requests *)
(* run statement by statement next to each other and to reject requests.   *)
(***************************************************************************)
ReviewOthers == <<calls, rateVars, fetchVars, saveVars, connVars, upserts, served>>

NextReview ==
    \/ \E jurisdiction \in ScanJurisdictions :
          PostRunsScan(jurisdiction) /\ UNCHANGED auxVars
    \/ \E r \in 1..Len(runs), pages \in SeqsUpTo(JobPages, MaxCandidates) :
          ProcessScanJob(r, pages) /\ UNCHANGED auxVars
    \/ \E c \in ApproveIds, i \in 1..Len(review_queue) :
          ApproveSelect(c, i) /\ UNCHANGED ReviewOthers
    \/ \E c \in ApproveIds : ApproveUpsert(c) /\ UNCHANGED ReviewOthers
    \/ \E c \in ApproveIds : ApproveLinks(c) /\ UNCHANGED ReviewOthers
    \/ \E c \in ApproveIds : ApproveUpdate(c) /\ UNCHANGED ReviewOthers
    \/ \E i \in 1..Len(review_queue) : Reject(i) /\ UNCHANGED auxVars

SpecReview == InitPipeline /\ [][NextReview]_vars

(***************************************************************************)
(* Claims about the pipeline.                                              *)
(***************************************************************************)
\* the job that just ended, its items, and what it upserted and queued
Job == lastJob[1]
JobEnds == lastJob' # lastJob /\ lastJob' # None
EndedJob == lastJob'[1]

InSeq(x, s) == \E i \in 1..Len(s) : s[i] = x

\* C1: whatever scan jobs, merge jobs, approvals and rejections were run, no
\* row of regulation_items has an evidence with zero citations.
C1_EvidenceGate ==
    \A i \in 1..Len(regulation_items) :
        Len(regulation_items[i].evidence.citations) > 0

\* the rows of regulation_items a step wrote: new rows and rows it replaced
Written(before, after) ==
    { after[i] : i \in { k \in 1..Len(after) : k > Len(before) \/ after[k] # before[k] } }

\* C2: a scan job or merge job upserts an item into regulation_items only if
\* validateRegulationItem accepts it and its trust tier is TIER_A_BINDING; an
\* item that is valid but of another tier, or of none, gets a pending
\* review entry with the item as payload, and no row is written for it.
C2_TierPromotionGate ==
    [][JobEnds =>
        /\ \A row \in Written(regulation_items, regulation_items') :
              /\ InSeq(row, EndedJob.accepted)
              /\ validateRegulationItem(row).ok
              /\ row.trust_tier = TIER_A
        /\ \A k \in 1..Len(EndedJob.items) :
              LET item == EndedJob.items[k]
              IN (validateRegulationItem(item).ok /\ item.trust_tier # TIER_A)
                 => /\ \E q \in (Len(review_queue) + 1)..Len(review_queue') :
                          /\ review_queue'[q].payload = item
                          /\ review_queue'[q].status = "pending"
                          /\ review_queue'[q].entity_type = "RegulationItem"
                    /\ ~InSeq(item, EndedJob.accepted)
                    /\ item \notin Written(regulation_items, regulation_items')
    ]_vars

\* a job ended whose item is valid, cites a source, has confidence 0.95 and
\* tier TIER_B_OFFICIAL_SIGNAL: it is pending in the review queue and the
\* job upserted nothing
C2_Witness ==
    /\ lastJob # None
    /\ Job.accepted = <<>>
    /\ \E k \in 1..Len(Job.items) :
          /\ validateRegulationItem(Job.items[k]).ok
          /\ Job.items[k].trust_tier = TIER_B
          /\ Job.items[k].confidence = 95
          /\ Len(Job.items[k].evidence.citations) > 0
          /\ \E q \in 1..Len(review_queue) :
                review_queue[q].payload = Job.items[k] /\ review_queue[q].status = "pending"
          /\ ~HasRow(regulation_items, Job.items[k].id)

\* C9: the approve route writes the payload of a pending review entry into
\* regulation_items only if the payload passes validateRegulationItem.
C9_ApproveRevalidates ==
    [][\A i \in 1..Len(review_queue) :
          (/\ review_queue[i].status = "pending"
           /\ review_queue'[i].status = "approved"
           /\ review_queue[i].entity_type = "RegulationItem")
          => validateRegulationItem(
                normalizeRegulationPayload(review_queue[i].payload)).ok
    ]_vars

(***************************************************************************)
(* Claims about the lineage graph.                                         *)
(***************************************************************************)
\* the address a URL stands for: lower case, no trailing slash, no utm_*
\* parameter
Address(url) ==
    [host |-> ToLowerCase(url.host),
     path |-> ToLowerCase(IF EndsWith(url.path, <<"/">>)
                          THEN SubSeq(url.path, 1, Len(url.path) - 1)
                          ELSE url.path),
     search |-> SelectSeq([i \in 1..Len(url.search) |->
                              <<ToLowerCase(url.search[i][1]), url.search[i][2]>>],
                          LAMBDA kv : ~IsUtmKey(kv[1]))]

\* the nodes of a type in the response whose canonical key is a URL of the
\* address of url
NodesOfAddress(type, url) ==
    { i \in 1..Len(lineage[1].nodes) :
         LET node == lineage[1].nodes[i]
         IN /\ node.type = type
            /\ node.id.id.hash # None
            /\ node.id.id.hash[1].canonicalKey.valid
            /\ Address(node.id.id.hash[1].canonicalKey) = Address(url) }

\* two rows of a table whose URLs parse and stand for the same address
Variants(table) ==
    { pair \in (1..Len(table)) \X (1..Len(table)) :
         /\ pair[1] < pair[2]
         /\ table[pair[1]].url.valid /\ table[pair[2]].url.valid
         /\ table[pair[1]].url # table[pair[2]].url
         /\ Address(table[pair[1]].url) = Address(table[pair[2]].url) }

\* C7: two stored documents, or two items, whose URLs differ only by a
\* trailing slash, letter case or utm_* parameters yield exactly one node of
\* their type in the lineage graph.
C7_UrlVariantDedup ==
    lineage # None =>
        /\ \A pair \in Variants(source_documents) :
              Cardinality(NodesOfAddress("SourceDocument",
                                         source_documents[pair[1]].url)) = 1
        /\ \A pair \in Variants(regulation_items) :
              Cardinality(NodesOfAddress("RegulationItem",
                                         regulation_items[pair[1]].url)) = 1

\* the edges of a relation in the response
EdgesOf(relation) ==
    { i \in 1..Len(lineage[1].edges) : lineage[1].edges[i].relation = relation }

\* one scan run of an enumerated jurisdiction completed on empty storage; it
\* found one document through the profile p1 (TIER_A_BINDING, no forced
\* review) with one file that was downloaded and stored, the extraction
\* gave one citation and confidence 0.9, and the lineage graph was built
EndToEndScenario ==
    /\ Len(runs) = 1
    /\ runs[1].run_type = "scan" /\ runs[1].status = "completed"
    /\ runs[1].jurisdiction \in JURISDICTIONS
    /\ cachedPolicy # None
    /\ \E p \in 1..Len(cachedPolicy[1].profiles) :
          /\ cachedPolicy[1].profiles[p].id = "p1"
          /\ cachedPolicy[1].profiles[p].tier = TIER_A
          /\ ~cachedPolicy[1].profiles[p].requires_review
    /\ Len(source_documents) = 1
    /\ source_documents[1].meta.source_profile_id = "p1"
    /\ Len(source_documents[1].meta.stored_files) = 1
    /\ source_documents[1].meta.stored_files[1].stored_id # None
    /\ lastJob # None
    /\ Len(Job.items) = 1
    /\ Len(Job.items[1].evidence.citations) = 1
    /\ Job.items[1].confidence = 90
    /\ getRuntimeConfig.confidence_min = 70
    /\ lineage # None

RunById(table, id) == table[CHOOSE r \in 1..Len(table) : table[r].id = id]

ScanJobEnds == JobEnds /\ RunById(runs', EndedJob.run_id).run_type = "scan"

\* C22: whatever fails for one document of a scan job, the write of its item
\* included, the job goes on: the run ends completed and every item that
\* runScan returned was upserted or queued for review.
C22_FailureIsolation ==
    [][ScanJobEnds =>
        /\ RunById(runs', EndedJob.run_id).status = "completed"
        /\ Len(EndedJob.accepted) + Len(EndedJob.reviewQueue) = Len(EndedJob.items)
    ]_vars

TerminalStatus == {"completed", "failed"}

\* the links a completed job inserts for what it upserted and, a scan job,
\* for what it queued
JobLinks(job, run_type) ==
    ItemLinks(job.run_id, job.accepted)
    \o (IF run_type = "scan" THEN QueuedLinks(job.run_id, job.reviewQueue) ELSE <<>>)

QueuedFor(item) ==
    { q \in (Len(review_queue) + 1)..Len(review_queue') :
         /\ review_queue'[q].payload = item
         /\ review_queue'[q].status = "pending"
         /\ review_queue'[q].reason # "" }

\* C24: for every item a scan job extracted or a merge job merged, either the
\* item was upserted into regulation_items, or exactly one pending review
\* entry with the item as payload and a non-empty reason was inserted, never
\* both and never neither; and the meta of a completed run counts as many
\* accepted (merged) and review items together as the job had items.
C24_NoItemDropped ==
    [][JobEnds =>
        LET run == RunById(runs', EndedJob.run_id)
        IN /\ \A k \in 1..Len(EndedJob.items) :
                 LET item == EndedJob.items[k]
                     upserted == /\ InSeq(item, EndedJob.accepted)
                                 /\ InSeq(item, regulation_items')
                 IN \/ upserted /\ QueuedFor(item) = {}
                    \/ ~upserted /\ Cardinality(QueuedFor(item)) = 1
           /\ run.status = "completed" =>
                 (IF run.run_type = "scan" THEN run.meta[1].accepted
                  ELSE run.meta[1].merged) + run.meta[1].review = Len(EndedJob.items)
    ]_vars

(***************************************************************************)
(* Claims about the edges of the lineage graph.                            *)
(***************************************************************************)
Edges == lineage[1].edges

\* C25: no two edges of a graph that buildLineageGraph returned have the
\* same source node, relation and target node, whether they come from a row
\* of links, from a source_document_id or from a citation.
C25_EdgeUniqueness ==
    lineage # None =>
        \A i, j \in 1..Len(Edges) :
            (/\ Edges[i].source = Edges[j].source
             /\ Edges[i].relation = Edges[j].relation
             /\ Edges[i].target = Edges[j].target) => i = j

\* a graph whose extracted_from edge is given twice: by a row of links and
\* by the source_document_id of the item
C25_Witness ==
    /\ lineage # None
    /\ EdgesOf("extracted_from") # {}
    /\ \E l \in 1..Len(links), i \in 1..Len(regulation_items) :
          /\ links[l].relation = "extracted_from"
          /\ links[l].to_id = regulation_items[i].id
          /\ regulation_items[i].source_document_id = Some(links[l].from_id)

\* the node upsertNode makes for a key
KeyNode(type, url) ==
    nodeId(TypePrefix(type), hashKey([type |-> type, canonicalKey |-> normalizeUrl(url)]))

\* the node of the source document with identifier id
DocNode(id) ==
    IF \E d \in 1..Len(source_documents) : source_documents[d].id = id
    THEN KeyNode("SourceDocument",
                 source_documents[CHOOSE d \in 1..Len(source_documents) :
                                      source_documents[d].id = id].url)
    ELSE nodeId("doc", RowId(id))

HasEdge(source, relation, target) ==
    \E e \in 1..Len(Edges) :
        /\ Edges[e].source = source
        /\ Edges[e].relation = relation
        /\ Edges[e].target = target

\* C28: for every row of regulation_items the graph has as many supported_by
\* edges from the item's node to the nodes of its citations as the item has
\* citations, and, when source_document_id is set, an extracted_from edge from
\* the document's node to the item's node, whatever the links table holds.
C28_SynthesizedEdges ==
    lineage # None =>
        \A i \in 1..Len(regulation_items) :
            LET item == regulation_items[i]
                node == KeyNode("RegulationItem", item.url)
                citations == item.evidence.citations
                targets == { KeyNode("Evidence", citations[c].url) : c \in 1..Len(citations) }
            IN /\ Cardinality({ e \in EdgesOf("supported_by") :
                                   Edges[e].source = node /\ Edges[e].target \in targets })
                  = Len(citations)
               /\ item.source_document_id # None =>
                     HasEdge(DocNode(item.source_document_id[1]), "extracted_from", node)

(***************************************************************************)
(* Claims about repeated scans and about the review decisions.             *)
(***************************************************************************)
\* the rows a step appended to a table
Added(before, after) == (Len(before) + 1)..Len(after)

\* C29: a scan job adds no row for a URL that an earlier scan has already
\* written: no source document, no item and no review entry of a URL that
\* the table held before the job, so that a scan run twice over the same
\* candidates leaves the rows of a single run.
C29_IdempotentWrites ==
    [][ScanJobEnds =>
        /\ \A d \in Added(source_documents, source_documents') :
              \A o \in 1..Len(source_documents) :
                 source_documents[o].url # source_documents'[d].url
        /\ \A d \in Added(regulation_items, regulation_items') :
              \A o \in 1..Len(regulation_items) :
                 regulation_items[o].url # regulation_items'[d].url
        /\ \A d \in Added(review_queue, review_queue') :
              \A o \in 1..Len(review_queue) :
                 review_queue[o].payload.url # review_queue'[d].payload.url
    ]_vars

\* C30: however approve and reject requests on the entries interleave, no
\* step writes the payload of an entry to regulation_items once the entry is
\* rejected, and an entry whose status is no longer pending keeps its status.
C30_RejectionTerminal ==
    [][\A i \in 1..Len(review_queue) :
          /\ review_queue[i].status = "rejected" =>
                \A row \in Written(regulation_items, regulation_items') :
                    row.id # review_queue[i].payload.id
          /\ review_queue[i].status # "pending" =>
                review_queue'[i].status = review_queue[i].status
    ]_vars

(***************************************************************************)
(* Scan jobs over the pages of the connectors of two profiles: p1, of      *)
(* tier TIER_A_BINDING, and p3, of the same tier with requires_review.     *)
(***************************************************************************)
RoutePages ==
    { [url |-> UrlA, title |-> "T1", profile_id |-> id, file |-> None,
       fetched |-> None, llm |-> c] : id \in {"p1", "p3"}, c \in {None, Some(90)} }
    \cup { page \in JobPages : page.url = UrlB }

NextRoute ==
    \/ \E jurisdiction \in ScanJurisdictions :
          PostRunsScan(jurisdiction) /\ UNCHANGED auxVars
    \/ \E r \in 1..Len(runs), pages \in SeqsUpTo(RoutePages, MaxJobPages) :
          ProcessScanJob(r, pages) /\ UNCHANGED auxVars

SpecRoute == InitPipeline /\ [][NextRoute]_vars

\* the route runScan computed for the candidate an item was extracted from,
\* found through the item's source document
ItemRoute(item, documents, policy) ==
    LET doc == documents[CHOOSE d \in 1..Len(documents) :
                            documents[d].id = item.source_document_id[1]]
    IN EvaluateCandidate([url |-> item.url,
                          profile_id |-> doc.meta.source_profile_id], policy).route

\* C31: an item of a scan job whose source evaluation has route review_queue
\* is not upserted into regulation_items by the job; it gets one pending
\* review entry.
C31_PolicyRouteApplied ==
    [][ScanJobEnds =>
        \A k \in 1..Len(EndedJob.items) :
            LET item == EndedJob.items[k]
            IN ItemRoute(item, source_documents', cachedPolicy'[1]) = "review_queue" =>
                  /\ ~InSeq(item, EndedJob.accepted)
                  /\ item \notin Written(regulation_items, regulation_items')
                  /\ Cardinality(QueuedFor(item)) = 1
    ]_vars

(***************************************************************************)
(* Resumable downloads: the downloads of the connector over an object      *)
(* store that can lose objects (an operator cleaning the storage           *)
(* directory).                                                             *)
(***************************************************************************)
RemoveStoredObject(name) ==
    /\ FileExists(files, name)
    /\ files' = { f \in files : f.name # name }
    /\ UNCHANGED <<storeLog, indexVars>>

NextResume ==
    \/ NextDownload
    \/ \E f \in files :
          RemoveStoredObject(f.name)
          /\ UNCHANGED <<policyVars, dbVars, lastJob, lineage, auxVars>>

\* the cooldown is one minute, so that a failed record inside its cooldown
\* and a record with a stored object both occur
InitResume ==
    /\ InitDownload
    /\ cooldownEnv = [set |-> TRUE, numeric |-> TRUE, value |-> 1]

SpecResume == InitResume /\ [][NextResume]_vars

\* the index holds a record with a stored_id for the URL and the object of
\* that id is in the storage directory
Resumable(url) ==
    /\ cachedIndex[url] # None
    /\ cachedIndex[url][1].stored_id # None
    /\ \E f \in files : f.name = cachedIndex[url][1].stored_id[1]

\* with one call at a time: a call of downloadStoreAndExtract for a URL whose record has a
\* stored_id and whose stored object exists makes no network request and
\* returns the record's stored_id, sha256 and size marked cached; the record
\* afterwards has status cached, the same stored_id, sha256 and size and
\* last_seen at the time of the call; a call makes a request only when there
\* is no such record or the object is missing.
ResumeInSequence ==
    [][lastDl' # lastDl =>
        LET call == lastDl'[1]
            url == call.file.url
            record == cachedIndex[url][1]
            after == cachedIndex'[url][1]
        IN /\ Resumable(url) =>
                /\ call.requests = 0
                /\ call.result.error = Undefined
                /\ call.result.stored_id = record.stored_id
                /\ call.result.sha256 = record.sha256
                /\ call.result.size = record.size
                /\ call.result.cached = Some(TRUE)
                /\ after.status = "cached"
                /\ after.stored_id = record.stored_id
                /\ after.sha256 = record.sha256
                /\ after.size = record.size
                /\ after.last_seen = Some(now)
                /\ indexFile' = cachedIndex'
                /\ files' = files
           /\ call.requests > 0 => ~Resumable(url)
    ]_vars

\* the last call found a record with a stored_id that was last seen earlier
\* and whose object is stored: it made no request and returned that object
ResumeCacheHit ==
    /\ lastDl # None
    /\ Dl.before # None
    /\ Dl.before[1].stored_id # None
    /\ Dl.before[1].last_seen # Some(Dl.at)
    /\ Dl.requests = 0
    /\ Dl.result.cached = Some(TRUE)
    /\ Dl.result.stored_id = Dl.before[1].stored_id
    /\ cachedIndex[Dl.file.url][1].last_seen = Some(Dl.at)

\* the last call found a record with a stored_id whose object was gone and
\* downloaded the file again
ResumeMissingObject ==
    /\ lastDl # None
    /\ Dl.before # None
    /\ Dl.before[1].stored_id # None
    /\ Dl.requests = 1

(***************************************************************************)
(* Claims about the radar table of the merge job.                          *)
(***************************************************************************)
MergeJobCompletes ==
    /\ JobEnds
    /\ RunById(runs', EndedJob.run_id).run_type = "merge"
    /\ RunById(runs', EndedJob.run_id).status = "completed"

\* the requirement rows and the review entries the step added for the entry
InsertedFor(entry) ==
    { i \in (Len(requirements) + 1)..Len(requirements') :
         /\ requirements'[i].requirement_family = entry.requirementFamily
         /\ requirements'[i].priority = entry.priority }

QueuedForEntry(entry) ==
    { q \in (Len(review_queue) + 1)..Len(review_queue') :
         /\ review_queue'[q].payload = entry
         /\ review_queue'[q].reason # "" }

\* C33: every entry of the radar table the merge service returned to a merge
\* job that completes is inserted as a requirement or gets a review entry
\* with a reason, whatever the inferred tier.
C33_RadarEntriesRecorded ==
    [][MergeJobCompletes =>
        \A k \in 1..Len(EndedJob.radarTable) :
            \/ InsertedFor(EndedJob.radarTable[k]) # {}
            \/ QueuedForEntry(EndedJob.radarTable[k]) # {}
    ]_vars

(***************************************************************************)
(* The domain gate of the validator, through merge jobs whose merged items *)
(* come from hosts around the permitted domain DomA: the domain itself,    *)
(* www.a, the subdomain x.a, and the hosts xa and a.c, which contain the   *)
(* domain without being under it.                                          *)
(***************************************************************************)
GateHosts ==
    { DomA, <<"www.", "a">>, <<"x", ".", "a">>, <<"x", "a">>, <<"a", ".", "c">>, <<"c">> }

GateItems(items, jurisdiction) ==
    { [id |-> id, jurisdiction |-> jurisdiction, title |-> "T3",
       url |-> [valid |-> TRUE, host |-> host, path |-> <<"/", "d">>, search |-> <<>>],
       evidence |-> Some([citations |-> <<Citation(UrlA)>>]), confidence |-> 95,
       trust_tier |-> TIER_A, source_document_id |-> None] :
          host \in GateHosts,
          id \in {0} \cup {items[i].id : i \in 1..Len(items)} }

GateAnswers(jurisdiction) ==
    [mergedItems : SeqsUpTo(GateItems(ItemsOf(jurisdiction), jurisdiction), MaxMerged),
     radarTable : {<<>>}]

NextGate ==
    \/ \E jurisdiction \in ScanJurisdictions : PostRunsMerge(jurisdiction) /\ UNCHANGED auxVars
    \/ \E r \in 1..Len(runs) : \E parsed \in GateAnswers(runs[r].jurisdiction) :
          ProcessMergeJob(r, parsed) /\ UNCHANGED auxVars

SpecGate == InitPipeline /\ [][NextGate]_vars

\* the host is a permitted domain or a name under one
PermittedHost(host) ==
    \E i \in 1..Len(ALLOWED_DOMAINS) :
        \/ host = ALLOWED_DOMAINS[i]
        \/ /\ EndsWith(host, ALLOWED_DOMAINS[i])
           /\ host[Len(host) - Len(ALLOWED_DOMAINS[i])] \in {".", "www."}

\* C34: a schema-valid item whose URL host is neither a permitted domain nor
\* a name under one fails validateRegulationItem with the reason "Source
\* domain not allowed", also when the host contains a permitted domain as a
\* substring; the job does not write it to regulation_items.
C34_DomainGate ==
    [][JobEnds =>
        \A k \in 1..Len(EndedJob.items) :
            LET item == EndedJob.items[k]
            IN RegulationItemSchemaOk(item) /\ ~PermittedHost(item.url.host) =>
                  /\ ~validateRegulationItem(item).ok
                  /\ validateRegulationItem(item).reason = "Source domain not allowed"
                  /\ ~InSeq(item, EndedJob.accepted)
    ]_vars

(***************************************************************************)
(* Claims about the record of a download whose bytes were stored.          *)
(***************************************************************************)
\* the objects the step wrote to the storage directory
StoredNow == { f.name : f \in files' } \ { f.name : f \in files }

\* C36: a call of downloadStoreAndExtract that stored the bytes of its file
\* leaves the record of the URL with status cached and the stored_id of the
\* object, also when the text extraction throws; it does not leave a record
\* with status failed.
C36_StoredMeansCached ==
    [][lastDl' # lastDl /\ StoredNow # {} =>
        LET record == cachedIndex'[lastDl'[1].file.url][1]
        IN /\ record.status = "cached"
           /\ record.stored_id # None
           /\ record.stored_id[1] \in StoredNow
    ]_vars

(***************************************************************************)
(* Two downloads at once: each of the two scan jobs running in the worker  *)
(* downloads one file, stores it and sets its record; the steps of the two *)
(* setGarRecord calls interleave.                                          *)
(***************************************************************************)
\* the file of a job has no record yet and no call is working on it
NotStarted(file) ==
    /\ cachedIndex[file.url] = None
    /\ \A c \in SaveIds : "file" \in DOMAIN saves[c] => saves[c].file # file

\* downloadStoreAndExtract lines 226-241: the download succeeds, the bytes
\* are stored, the text is extracted and setGarRecord sets the record and
\* enters saveIndex
DownloadStored(c, file, buffer) ==
    LET out == storeRemoteFile(files, file.url, buffer, file.ext)
    IN /\ \/ saves[c].pc = "idle" /\ NotStarted(file)
          \/ saves[c].pc = "fetching" /\ saves[c].file = file
       /\ ~out.threw
       /\ files' = out.files
       /\ cachedIndex' = setGarRecord(cachedIndex, file.url,
                                      CachedRecord(out.result[1], now))
       /\ saves' = [saves EXCEPT ![c] = [pc |-> "mkdir", file |-> file]]
       /\ UNCHANGED <<indexDisk, storeLog>>

\* lines 252-258: the catch block sets the failed record and enters saveIndex
CatchSetFailed(c) ==
    /\ saves[c].pc = "threw"
    /\ cachedIndex' = setGarRecord(cachedIndex, saves[c].file.url,
                                   FailedRecord(now, saves[c].file.ext))
    /\ saves' = [saves EXCEPT ![c] = [pc |-> "mkdir"]]
    /\ UNCHANGED <<indexDisk, files, storeLog>>

PairOthers ==
    <<policyVars, now, cooldownEnv, indexFile, lastDl, dbVars, lastJob,
      lineage, calls, rateVars, fetchVars, connVars, stepVars>>

NextSavePair ==
    \/ \E c \in SaveIds, file \in GarFiles, buffer \in Buffers :
          DownloadStored(c, file, buffer) /\ UNCHANGED PairOthers
    \/ \E c \in SaveIds : SaveOpen(c) /\ UNCHANGED <<PairOthers, storeVars>>
    \/ \E c \in SaveIds : SaveWrite(c) /\ UNCHANGED <<PairOthers, storeVars>>
    \/ \E c \in SaveIds : SaveRename(c) /\ UNCHANGED <<PairOthers, storeVars>>
    \/ \E c \in SaveIds : CatchSetFailed(c) /\ UNCHANGED PairOthers

SpecSavePair == InitSave /\ [][NextSavePair]_vars

\* both downloads were stored and no call is in progress
BothSaved ==
    /\ \A file \in GarFiles : cachedIndex[file.url] # None
    /\ \A c \in SaveIds : saves[c].pc = "idle"

\* C35: of two overlapping setGarRecord calls for the files of two stored
\* downloads neither throws, no stored download is recorded as failed, and
\* once both calls have returned the index file holds a complete document
\* with the cached records of both files.
C35_BothWritersRecorded ==
    /\ \A c \in SaveIds : saves[c].pc # "threw"
    /\ \A file \in GarFiles :
          cachedIndex[file.url] # None => cachedIndex[file.url][1].status = "cached"
    /\ BothSaved =>
          /\ indexDisk.final # 0
          /\ indexDisk.inodes[indexDisk.final].complete
          /\ \A file \in GarFiles :
                LET record == indexDisk.inodes[indexDisk.final].doc[file.url]
                IN record # None /\ record[1].status = "cached"

(***************************************************************************)
(* Resuming a download while another job saves the index: the two jobs of  *)
(* the worker download files, and call downloadStoreAndExtract again for   *)
(* files already stored.                                                   *)
(***************************************************************************)
\* loadCachedFile lines 266-277 on a record with a stored_id whose object
\* exists: setGarRecord refreshes the record and enters saveIndex
LoadCachedFile(c, file) ==
    /\ saves[c].pc = "idle"
    /\ SavesStarted < MaxSaves
    /\ CacheHit(files, cachedIndex, file.url)
    /\ ~shouldSkipFailed(cachedIndex, file.url, CooldownMinutes(cooldownEnv), now)
    /\ cachedIndex' = setGarRecord(cachedIndex, file.url,
            [getGarRecord(cachedIndex, file.url)[1] EXCEPT
                !.status = "cached", !.last_seen = Some(now)])
    /\ saves' = [saves EXCEPT ![c] = [pc |-> "mkdir", file |-> file, resume |-> TRUE]]
    /\ UNCHANGED <<indexDisk, files, storeLog>>

NextResumePair ==
    \/ NextSavePair
    \/ \E c \in SaveIds, file \in GarFiles :
          LoadCachedFile(c, file) /\ UNCHANGED PairOthers

SpecResumePair == InitSave /\ [][NextResumePair]_vars

\* C32: when the index holds a record with a stored_id for the URL of a file
\* and the stored object exists, downloadStoreAndExtract issues no network
\* request for the file: no call is in fetchBuffer for it.
C32_ResumableDownloads ==
    \A c \in SaveIds :
        saves[c].pc = "fetching" => ~Resumable(saves[c].file.url)

(***************************************************************************)
(* The lineage graph over a database with more rows than the graph reads.  *)
(* The graph reads the newest RowLimit rows of a table; here the limit is  *)
(* scaled down to ScaledRowLimit rows, so that the scans of two jobs fill  *)
(* a table beyond it.                                                      *)
(***************************************************************************)
ScaledRowLimit == 2

\* GET /api/lineage over tables cut at the scaled limit
GetLineageScaled ==
    /\ lineage' = Some(buildLineageGraphOf(Tables, ScaledRowLimit, ScaledRowLimit))
    /\ UNCHANGED <<dbVars, lastJob, policyVars, storeVars, indexVars, auxVars>>

NextClosure ==
    \/ \E jurisdiction \in ScanJurisdictions : PostRunsScan(jurisdiction) /\ UNCHANGED auxVars
    \/ \E r \in 1..Len(runs) : StartScanJob(r) /\ UNCHANGED auxVars
    \/ \E r \in 1..Len(runs), pages \in SeqsUpTo(JobPages, MaxJobPages),
          fault \in 0..MaxJobPages :
          RunScanJob(r, pages, fault) /\ UNCHANGED auxVars
    \/ GetLineageScaled

SpecClosure == InitPipeline /\ [][NextClosure]_vars

NodeIds == { lineage[1].nodes[n].id : n \in 1..Len(lineage[1].nodes) }

\* C37: in every graph buildLineageGraph returns the source and the target
\* of every edge are ids of nodes of the graph, also for the extracted_from
\* edge of an item whose source document is not among the rows read.
C37_GraphClosure ==
    lineage # None =>
        \A e \in 1..Len(Edges) :
            Edges[e].source \in NodeIds /\ Edges[e].target \in NodeIds

(***************************************************************************)
(* File download route (index.ts, GET /api/files/:id) over                 *)
(* getStoredFilePath.  A path is a location relative to the storage        *)
(* directory: up parent steps, then the segments segs.  The directory      *)
(* itself is [up |-> 0, segs |-> <<>>]; a direct child has up = 0 and one  *)
(* segment.                                                                *)
(***************************************************************************)
\* the text up to the first "/" and the text after it
SplitAtSlash(name) ==
    LET at == { i \in 1..Len(name) : name[i] = "/" }
        first == IF at = {} THEN Len(name) + 1
                 ELSE CHOOSE i \in at : \A j \in at : i <= j
    IN [head |-> SubSeq(name, 1, first - 1),
        rest |-> SubSeq(name, first + 1, Len(name))]

RECURSIVE PathJoinFrom(_, _)
\* path.join(dir, name) continued from the location at: empty and "."
\* segments are dropped, a ".." segment steps to the parent
PathJoinFrom(at, name) ==
    IF name = <<>> THEN at
    ELSE LET cut == SplitAtSlash(name)
             next == IF cut.head = <<>> \/ cut.head = <<".">> THEN at
                     ELSE IF cut.head = <<".", ".">>
                     THEN IF at.segs = <<>>
                          THEN [up |-> at.up + 1, segs |-> <<>>]
                          ELSE [up |-> at.up, segs |-> SubSeq(at.segs, 1, Len(at.segs) - 1)]
                     ELSE [up |-> at.up, segs |-> Append(at.segs, cut.head)]
         IN PathJoinFrom(next, cut.rest)

\* path.join(dir, safeName)
PathJoin(safeName) == PathJoinFrom([up |-> 0, segs |-> <<>>], safeName)

\* fs.access(filePath): the storage directory once ensureDir has made it, a
\* stored object, and whatever lies outside the directory
Access(dir, made, filePath) ==
    IF filePath.up > 0 THEN TRUE
    ELSE IF filePath.segs = <<>> THEN made
    ELSE Len(filePath.segs) = 1 /\ FileExists(dir, filePath.segs[1])

\* getStoredFilePath(fileId): [threw, error, filePath]
getStoredFilePath(dir, made, fileId) ==
    LET sane == sanitizeId(fileId)
        filePath == PathJoin(sane.safe)
    IN IF sane.threw
       THEN [threw |-> TRUE, error |-> "Invalid file id", filePath |-> None]
       ELSE IF ~Access(dir, made, filePath)
       THEN [threw |-> TRUE, error |-> "ENOENT", filePath |-> None]
       ELSE [threw |-> FALSE, error |-> "", filePath |-> Some(filePath)]

\* ensureDir has run: some storeRemoteFile call was made
StorageDirMade == storeLog # <<>> \/ files # {}

FileIdToks == {"/", ".", sha256Hex("u1"), "pdf"}

\* the ids a request can carry (percent-decoded, so "/" can occur)
FileIds ==
    { <<>> } \cup { <<a>> : a \in FileIdToks }
    \cup { <<a, b>> : a \in FileIdToks, b \in FileIdToks }
    \cup { <<"/", ".", "/">>, <<".", "/", ".">>, <<".", ".", "/">>,
           <<sha256Hex("u1"), ".", "pdf">> }

\* GET /api/files/:id
GetFile(id) ==
    IF id = <<>>
    THEN served' = Some([id |-> id, status |-> 400, error |-> "Missing file id",
                         filePath |-> None])
    ELSE LET got == getStoredFilePath(files, StorageDirMade, id)
         IN IF got.threw
            THEN served' = Some([id |-> id, status |-> 404, error |-> "File not found",
                                 filePath |-> None])
            ELSE served' = Some([id |-> id, status |-> 200, error |-> "",
                                 filePath |-> got.filePath])

FileExts == { <<>>, <<"pdf">> }

NextFiles ==
    \/ \E url \in FileUrls, ext \in FileExts :
          StoreRemoteFile(url, "x", ext)
          /\ UNCHANGED <<policyVars, indexVars, dbVars, lastJob, lineage, auxVars>>
    \/ \E id \in FileIds :
          GetFile(id)
          /\ UNCHANGED <<policyVars, storeVars, indexVars, dbVars, lastJob, lineage,
                         calls, rateVars, fetchVars, saveVars, connVars,
                         upserts, decisions>>

SpecFiles == InitStore /\ [][NextFiles]_vars

\* the location is a direct child of the storage directory
DirectChild(filePath) == filePath.up = 0 /\ Len(filePath.segs) = 1

\* C38: every file request either fails or resolves to a path that is a
\* direct child of the storage directory
C38_ResolvesToDirectChild ==
    (served # None /\ served[1].filePath # None) =>
        DirectChild(served[1].filePath[1])

\* no request resolves outside the storage directory
ResolvesInside ==
    (served # None /\ served[1].filePath # None) => served[1].filePath[1].up = 0

\* a request for a stored object is answered with that object
ServedStoredObject ==
    /\ served # None
    /\ served[1].filePath = Some([up |-> 0, segs |-> << <<sha256Hex("u1"), ".", "pdf">> >>])

====
